---------------------------- MODULE Spec2Model ----------------------------
(***************************************************************************)
(* A model of the caching and concurrency core of the movie-recommendation *)
(* service:                                                                *)
(*   - the cache-key normalisation of SQLiteClient and VectorDBClient,     *)
(*   - their freshness-checked LRU query caches,                           *)
(*   - the per-thread lock registry of MovieAgent,                         *)
(*   - the cache-aside session validation of the REST API.                 *)
(* Each component has its own specification (SpecKey, SpecCache, ...);     *)
(* the variables of the other components keep their initial values.        *)
(***************************************************************************)
EXTENDS Integers, Sequences, FiniteSets, TLC

VARIABLES
    kwargs1,        \* a parameter set handed to query_movies
    kwargs2,        \* a second parameter set, a variation of the first
    nvary,          \* how many variations were applied to kwargs2
    \* one query client object (an SQLiteClient or a VectorDBClient)
    client,         \* its class: "sql" or "vec"
    cache,          \* _cache: the OrderedDict, as <<[key, value], ...>>, oldest first
    cache_size,     \* _cache_size
    db_mtime,       \* SQLiteClient._db_mtime: the marker last seen
    index_mtime,    \* VectorDBClient._index_mtime
    meta_mtime,     \* VectorDBClient._meta_mtime
    \* the files behind it
    db_file,        \* the database file: [mtime, rows]
    index_file,     \* the modification time of the FAISS index file
    meta_file,      \* the modification time of the metadata file
    \* what the last operation on the client did
    last,           \* the operation, its arguments and key, whether it was a
                    \* hit, what it returned, whether it went to the store,
                    \* the keys its store evicted, the keys its freshness
                    \* check dropped, whether it repeats the call before it
    recency,        \* the cached keys by their most recent use, oldest first
    \* one MovieAgent and the coroutines calling it
    tasks,          \* per coroutine: [pc, op, thread, lock]
    thread_locks,   \* _thread_locks: thread id -> lock, for the ids looked up so far
    locks,          \* the asyncio.Lock objects created: <<[locked, waiters, woken], ...>>
    tools,          \* _tools is not None
    saver,          \* _saver: 0 for None, else the saver context it came from
    agent,          \* _agent: 0 for None, else the saver it was created with
    saver_contexts, \* how many saver contexts were entered
    inserted,       \* the last lock put into _thread_locks: [thread, lock, held],
                    \* held: its coroutine held _lock_cleanup_lock
    lock_cleanup_lock, \* _lock_cleanup_lock: [locked, holder]
    closer,         \* the coroutine in close(): [pc, n], n the calls made
    \* the API's session layer
    chats,          \* the chats table: chat_id -> [user_id, status]
    redis,          \* the chat-pair keys in Redis: <<user_id, chat_id>> -> status
    redis_up,       \* FALSE while every Redis command raises RedisError
    reqs,           \* per request in flight: [pc, kind, user, chat, read, wrote, expect]
    resp,           \* the response sent last, and what the request did
    fresh,          \* per pair: the status a completed status change set and
                    \* nothing has touched since ("none" otherwise)
    chain,          \* the archive / validate / unarchive / validate scenario
                    \* in progress and the responses it got so far
    \* wall-clock time of the session layer, in seconds
    now,            \* the current time
    expires,        \* per chat-pair key: when the TTL of its last SETEX runs out
    archived_at,    \* per chat: since when its row has status 'archived' (-1: it has not)
    started,        \* per request slot: when its request arrived
    \* the users behind the session layer
    users,          \* the users table: the user_ids in it
    ucache,         \* the user keys in Redis: the user_ids that have one
    did,            \* per request slot: what its request has changed so far
    nreq,           \* how many requests the endpoints have received
    \* what the callers of the MovieAgent have seen
    issued,         \* the calls in progress, in the order they were issued
    ended,          \* how the call that ended last ended: [thread, lock,
                    \* raised, got, clean]
    \* what the caller of the SQL tool or of its handler got
    result,         \* [op, raised, reached, success, error, count, movies]
    \* the coroutines that call one client's query_movies or search
    callers         \* per caller: [pc, kw], the call it has been scheduled for

toolVars == <<result, callers>>
keyVars == <<kwargs1, kwargs2, nvary, toolVars>>
cacheVars == <<client, cache, cache_size, db_mtime, index_mtime, meta_mtime,
               db_file, index_file, meta_file, last, recency>>
callVars == <<issued, ended>>
closeVars == <<lock_cleanup_lock, closer>>
agentVars == <<tasks, thread_locks, locks, tools, saver, agent, saver_contexts,
               inserted, callVars, closeVars>>
timeVars == <<now, expires, archived_at, started>>
apiVars == <<users, ucache, did, nreq>>
sessVars == <<chats, redis, redis_up, reqs, resp, fresh, chain, timeVars, apiVars>>
vars == <<keyVars, cacheVars, agentVars, sessVars>>

(***************************************************************************)
(* Bounds of the model.                                                    *)
(***************************************************************************)
MaxVary == 2        \* variations applied to one parameter set
MaxCacheSize == 2   \* largest cache_size a client is constructed with
MaxMtime == 2       \* modification times are 1..MaxMtime
MaxTasks == 3       \* coroutines calling the agent at once
MaxReqs == 2        \* session requests in flight at once
MaxRequests == 2    \* requests the endpoints receive in one run
MaxCalls == 2       \* agent calls in progress at once whose outcome is observed
MaxCallers == 2     \* coroutines calling one client's query_movies or search

(***************************************************************************)
(* Strings.  A Python str is a sequence of one-character strings.          *)
(***************************************************************************)
Letters == <<"a", "b", "c", "d", "e", "f", "g", "h", "i", "j", "k", "l", "m",
            "n", "o", "p", "q", "r", "s", "t", "u", "v", "w", "x", "y", "z">>
Capitals == <<"A", "B", "C", "D", "E", "F", "G", "H", "I", "J", "K", "L", "M",
             "N", "O", "P", "Q", "R", "S", "T", "U", "V", "W", "X", "Y", "Z">>

\* str.lower() on one character
LowerChar(c) ==
    IF \E i \in 1..Len(Capitals) : Capitals[i] = c
    THEN Letters[CHOOSE i \in 1..Len(Capitals) : Capitals[i] = c]
    ELSE c

\* str.upper() on one character
UpperChar(c) ==
    IF \E i \in 1..Len(Letters) : Letters[i] = c
    THEN Capitals[CHOOSE i \in 1..Len(Letters) : Letters[i] = c]
    ELSE c

Lower(s) == [i \in 1..Len(s) |-> LowerChar(s[i])]
Upper(s) == [i \in 1..Len(s) |-> UpperChar(s[i])]

IsSpace(c) == c = " "

RECURSIVE LStrip(_)
LStrip(s) == IF s # <<>> /\ IsSpace(Head(s)) THEN LStrip(Tail(s)) ELSE s

RECURSIVE RStrip(_)
RStrip(s) ==
    IF s # <<>> /\ IsSpace(s[Len(s)]) THEN RStrip(SubSeq(s, 1, Len(s) - 1)) ELSE s

\* str.strip()
Strip(s) == RStrip(LStrip(s))

\* str.split(","): the pieces between commas, empty pieces included
RECURSIVE SplitComma(_)
SplitComma(s) ==
    IF \E i \in 1..Len(s) : s[i] = ","
    THEN LET i == CHOOSE j \in 1..Len(s) :
                      s[j] = "," /\ \A k \in 1..(j - 1) : s[k] # ","
         IN <<SubSeq(s, 1, i - 1)>> \o SplitComma(SubSeq(s, i + 1, Len(s)))
    ELSE <<s>>

\* code point of the characters used
CharOrd(c) ==
    IF \E i \in 1..Len(Letters) : Letters[i] = c
    THEN 96 + (CHOOSE i \in 1..Len(Letters) : Letters[i] = c)
    ELSE IF \E i \in 1..Len(Capitals) : Capitals[i] = c
    THEN 64 + (CHOOSE i \in 1..Len(Capitals) : Capitals[i] = c)
    ELSE CASE c = " " -> 32
           [] c = "%" -> 37
           [] c = "," -> 44
           [] c = "\\" -> 92
           [] c = "_" -> 95
           [] OTHER -> 0

\* s < t in Python's string order
RECURSIVE StrLess(_, _)
StrLess(s, t) ==
    IF t = <<>> THEN FALSE
    ELSE IF s = <<>> THEN TRUE
    ELSE IF CharOrd(Head(s)) # CharOrd(Head(t))
         THEN CharOrd(Head(s)) < CharOrd(Head(t))
         ELSE StrLess(Tail(s), Tail(t))

\* sorted(S) for a set of strings
RECURSIVE SortedStrs(_)
SortedStrs(S) ==
    IF S = {} THEN <<>>
    ELSE LET m == CHOOSE x \in S : \A y \in S \ {x} : StrLess(x, y)
         IN <<m>> \o SortedStrs(S \ {m})

Range(f) == {f[i] : i \in DOMAIN f}

\* the elements x of a list with x.strip() non-empty, in order
RECURSIVE SelectNonEmpty(_)
SelectNonEmpty(l) ==
    IF l = <<>> THEN <<>>
    ELSE IF Strip(Head(l)) # <<>>
         THEN <<Head(l)>> \o SelectNonEmpty(Tail(l))
         ELSE SelectNonEmpty(Tail(l))

\* sep.join(l)
RECURSIVE JoinWith(_, _)
JoinWith(l, sep) ==
    IF l = <<>> THEN <<>>
    ELSE IF Len(l) = 1 THEN Head(l)
    ELSE Head(l) \o sep \o JoinWith(Tail(l), sep)

(***************************************************************************)
(* Python values: None, a str, a list of str, an int.                      *)
(***************************************************************************)
PyNone == [t |-> "none", s |-> <<>>, l |-> <<>>, n |-> 0]
PyStr(x) == [t |-> "str", s |-> x, l |-> <<>>, n |-> 0]
PyList(x) == [t |-> "list", s |-> <<>>, l |-> x, n |-> 0]
PyTuple(x) == [t |-> "tuple", s |-> <<>>, l |-> x, n |-> 0]
PyInt(x) == [t |-> "int", s |-> <<>>, l |-> <<>>, n |-> x]

(***************************************************************************)
(* SQLiteClient: cache key.                                                *)
(***************************************************************************)
\* a str is normalised as one value, a list or tuple element by element
normalize_cache_value(value) ==
    CASE value.t = "none" -> PyNone
      [] value.t = "str" -> PyStr(Strip(Lower(value.s)))
      [] value.t = "list" ->
            LET kept == SelectNonEmpty(value.l)
                normalized == {Strip(Lower(kept[i])) : i \in 1..Len(kept)}
            IN PyTuple(SortedStrs(normalized))
      [] OTHER -> value

\* the md5 digest of str(sorted items) is taken to be injective: the key is
\* the mapping from parameter name to normalised value
sql_make_cache_key(kwargs) ==
    [k \in DOMAIN kwargs |-> normalize_cache_value(kwargs[k])]


(***************************************************************************)
(* SQLiteClient.query_movies: what the call asks the catalog store.        *)
(***************************************************************************)
\* escape_like: a backslash before each backslash, percent sign, underscore
RECURSIVE escape_like(_)
escape_like(s) ==
    IF s = <<>> THEN <<>>
    ELSE IF Head(s) \in {"\\", "%", "_"}
         THEN <<"\\", Head(s)>> \o escape_like(Tail(s))
         ELSE <<Head(s)>> \o escape_like(Tail(s))

\* [x.strip() for x in pieces if x.strip()]
RECURSIVE StripAll(_)
StripAll(l) ==
    IF l = <<>> THEN <<>>
    ELSE IF Strip(Head(l)) # <<>>
         THEN <<Strip(Head(l))>> \o StripAll(Tail(l))
         ELSE StripAll(Tail(l))

normalize_list(val) ==
    CASE val.t = "none" -> <<>>
      [] val.t = "str" -> StripAll(SplitComma(val.s))
      [] OTHER -> StripAll(val.l)

\* the parameter bound to one LIKE ? ESCAPE '\' COLLATE NOCASE predicate;
\* NOCASE makes patterns that differ only in ASCII case the same filter
LikeParam(v) == Lower(<<"%">> \o escape_like(v) \o <<"%">>)

\* build_json_predicates: one OR-ed predicate per value
build_json_predicates(values) ==
    {LikeParam(values[i]) : i \in 1..Len(values)}

S_id == <<"i", "d">>
S_title == <<"t", "i", "t", "l", "e">>
S_year == <<"y", "e", "a", "r">>
S_rating == <<"r", "a", "t", "i", "n", "g">>
S_popularity == <<"p", "o", "p", "u", "l", "a", "r", "i", "t", "y">>
S_vote_count == <<"v", "o", "t", "e", "_", "c", "o", "u", "n", "t">>
S_revenue == <<"r", "e", "v", "e", "n", "u", "e">>
S_budget == <<"b", "u", "d", "g", "e", "t">>
S_runtime == <<"r", "u", "n", "t", "i", "m", "e">>
S_release_date == <<"r", "e", "l", "e", "a", "s", "e", "_", "d", "a", "t", "e">>
S_DESC == <<"D", "E", "S", "C">>
S_ASC == <<"A", "S", "C">>

ORDERABLE_FIELDS ==
    {S_id, S_title, S_year, S_rating, S_popularity, S_vote_count, S_revenue,
     S_budget, S_runtime, S_release_date}

\* bool(x) of an Optional[str]
Truthy(v) == v.t = "str" /\ v.s # <<>>

Max(a, b) == IF a >= b THEN a ELSE b

\* the query query_movies sends to the store for a parameter set: the base
\* clauses with their parameters, the OR-ed JSON predicates with their
\* counts, the ORDER BY field and direction, LIMIT and OFFSET
EffectiveQuery(kw) ==
    LET genres == normalize_list(kw.genre)
        cast_members == normalize_list(kw.cast)
    IN [year |-> kw.year,
        year_min |-> IF kw.year.t # "none" THEN PyNone ELSE kw.year_min,
        year_max |-> IF kw.year.t # "none" THEN PyNone ELSE kw.year_max,
        director |-> IF Truthy(kw.director)
                     THEN PyStr(LikeParam(kw.director.s)) ELSE PyNone,
        title |-> IF Truthy(kw.title)
                  THEN PyStr(LikeParam(kw.title.s)) ELSE PyNone,
        genre_sql |-> build_json_predicates(genres),
        genre_count |-> Len(genres),
        cast_sql |-> build_json_predicates(cast_members),
        cast_count |-> Len(cast_members),
        order_by |-> IF kw.order_by.t = "str" /\ kw.order_by.s \in ORDERABLE_FIELDS
                     THEN kw.order_by.s ELSE S_year,
        order_dir |-> IF kw.order_dir.t = "str" /\ Upper(kw.order_dir.s) = S_DESC
                      THEN S_DESC ELSE S_ASC,
        limit |-> Max(1, kw.limit.n),
        offset |-> Max(0, kw.offset.n)]

\* the query as the store runs it.  sqlite3 binds the i-th "?" of the text to
\* the i-th element of query_params; in full_query the "?" of the genre and
\* cast predicates (inside the SELECT list of the subquery) come before those
\* of base_where, while query_params lists base_params first
BoundQuery(kw) ==
    LET q == EffectiveQuery(kw)
        genres == normalize_list(kw.genre)
        cast_members == normalize_list(kw.cast)
        genre_params == [i \in 1..Len(genres) |-> PyStr(LikeParam(genres[i]))]
        cast_params ==
            [i \in 1..Len(cast_members) |-> PyStr(LikeParam(cast_members[i]))]
        base == SelectSeq(<<[f |-> "year", v |-> q.year],
                            [f |-> "year_min", v |-> q.year_min],
                            [f |-> "year_max", v |-> q.year_max],
                            [f |-> "director", v |-> q.director],
                            [f |-> "title", v |-> q.title]>>,
                          LAMBDA c : c.v.t # "none")
        base_params == [i \in 1..Len(base) |-> base[i].v]
        query_params == base_params \o genre_params \o cast_params
        g == Len(genres)
        c == Len(cast_members)
        BaseSlot(f) ==
            IF \E i \in 1..Len(base) : base[i].f = f
            THEN query_params[g + c + (CHOOSE i \in 1..Len(base) : base[i].f = f)]
            ELSE PyNone
    IN [q EXCEPT !.genre_sql = {query_params[i] : i \in 1..g},
                 !.cast_sql = {query_params[g + i] : i \in 1..c},
                 !.year = BaseSlot("year"),
                 !.year_min = BaseSlot("year_min"),
                 !.year_max = BaseSlot("year_max"),
                 !.director = BaseSlot("director"),
                 !.title = BaseSlot("title")]


(***************************************************************************)
(* The catalog store: the movies table and the SELECT query_movies runs.   *)
(***************************************************************************)
Row(id, title, year, genres, cast, rating) ==
    [id |-> id, title |-> title, year |-> year, director |-> <<"d", "i", "r">>,
     genres |-> genres, cast |-> cast, rating |-> rating]

\* two contents of the movies table, rows in rowid order
CatalogA ==
    <<Row(1, <<"a", " ", "d">>, 1, <<<<"a">>>>, <<<<"c">>>>, 8),
      Row(2, <<"d", "a">>, 2, <<<<"d">>>>, <<<<"c">>, <<"e">>>>, 7),
      Row(3, <<"e">>, 2, <<<<"a">>, <<"d">>>>, <<>>, 9)>>
CatalogB ==
    <<Row(2, <<"d", "a">>, 2, <<<<"d">>>>, <<<<"c">>, <<"e">>>>, 7),
      Row(4, <<"a", "e">>, 3, <<<<"a">>>>, <<>>, 6)>>
Catalogs == {CatalogA, CatalogB}

\* s[i..] starts with t
StartsWithAt(s, i, t) ==
    /\ i + Len(t) - 1 <= Len(s)
    /\ \A j \in 1..Len(t) : s[i + j - 1] = t[j]

Contains(s, t) == \E i \in 1..(Len(s) + 1) : StartsWithAt(s, i, t)

\* the literal text an escaped LIKE pattern stands for
RECURSIVE Unescape(_)
Unescape(s) ==
    IF s = <<>> THEN <<>>
    ELSE IF Head(s) = "\\" /\ Len(s) >= 2
         THEN <<s[2]>> \o Unescape(SubSeq(s, 3, Len(s)))
         ELSE <<Head(s)>> \o Unescape(Tail(s))

\* text LIKE param ESCAPE '\' COLLATE NOCASE, for a param "%" + escaped + "%"
LikeMatch(text, param) ==
    Contains(Lower(text), Unescape(SubSeq(param, 2, Len(param) - 1)))

Digits == <<"0", "1", "2", "3", "4", "5", "6", "7", "8", "9">>

\* the text SQLite makes of an integer n
RECURSIVE IntText(_)
IntText(n) ==
    IF n < 0 THEN <<"-">> \o IntText(0 - n)
    ELSE IF n < 10 THEN <<Digits[n + 1]>>
    ELSE IntText(n \div 10) \o <<Digits[(n % 10) + 1]>>

\* text LIKE ? ESCAPE '\' COLLATE NOCASE for whatever value is bound: an
\* integer is taken as its text, a pattern without wildcards
SqlLike(text, v) ==
    IF v.t = "str" THEN LikeMatch(text, v.s) ELSE Lower(text) = IntText(v.n)

\* m.year <op> ? on the INTEGER column: a bound text that is no number stays
\* TEXT, and an INTEGER sorts before any TEXT
YearCompare(op, year, v) ==
    IF v.t = "int"
    THEN CASE op = "=" -> year = v.n
           [] op = ">=" -> year >= v.n
           [] OTHER -> year <= v.n
    ELSE op = "<="

\* SELECT COUNT(*) FROM json_each(field) WHERE (p1 OR p2 ...); "0" when no value
JsonMatches(field, preds) ==
    Cardinality({i \in 1..Len(field) : \E pm \in preds : SqlLike(field[i], pm)})

BaseWhere(q, m) ==
    /\ q.year.t # "none" => YearCompare("=", m.year, q.year)
    /\ q.year_min.t # "none" => YearCompare(">=", m.year, q.year_min)
    /\ q.year_max.t # "none" => YearCompare("<=", m.year, q.year_max)
    /\ q.director.t # "none" => SqlLike(m.director, q.director)
    /\ q.title.t # "none" => SqlLike(m.title, q.title)

OuterWhere(q, m) ==
    /\ q.genre_count > 0 => JsonMatches(m.genres, q.genre_sql) >= 1
    /\ q.cast_count > 0 => JsonMatches(m.cast, q.cast_sql) >= 1

\* CASE WHEN (? = 0 OR genre_matches >= ?) AND (? = 0 OR cast_matches >= ?)
Ranking(q, m) ==
    IF /\ (q.genre_count = 0 \/ JsonMatches(m.genres, q.genre_sql) >= q.genre_count)
       /\ (q.cast_count = 0 \/ JsonMatches(m.cast, q.cast_sql) >= q.cast_count)
    THEN 1 ELSE 0

\* m1 sorts strictly before m2 on the ORDER BY column alone
FieldBefore(q, m1, m2) ==
    LET asc == q.order_dir = S_ASC
    IN CASE q.order_by = S_title ->
                IF asc THEN StrLess(m1.title, m2.title)
                       ELSE StrLess(m2.title, m1.title)
         [] q.order_by = S_id ->
                IF asc THEN m1.id < m2.id ELSE m2.id < m1.id
         [] q.order_by = S_year ->
                IF asc THEN m1.year < m2.year ELSE m2.year < m1.year
         [] q.order_by = S_rating ->
                IF asc THEN m1.rating < m2.rating ELSE m2.rating < m1.rating
         [] OTHER -> FALSE

\* ORDER BY ranking DESC, order_by order_dir
SortsBefore(q, m1, m2) ==
    \/ Ranking(q, m1) > Ranking(q, m2)
    \/ Ranking(q, m1) = Ranking(q, m2) /\ FieldBefore(q, m1, m2)

RECURSIVE Filter(_, _)
Filter(q, rows) ==
    IF rows = <<>> THEN <<>>
    ELSE IF BaseWhere(q, Head(rows)) /\ OuterWhere(q, Head(rows))
         THEN <<Head(rows)>> \o Filter(q, Tail(rows))
         ELSE Filter(q, Tail(rows))

\* rows in ORDER BY order; rows that tie keep their scan order
RECURSIVE OrderBy(_, _)
OrderBy(q, rows) ==
    IF rows = <<>> THEN <<>>
    ELSE LET i == CHOOSE j \in 1..Len(rows) :
                    /\ \A k \in 1..Len(rows) : ~SortsBefore(q, rows[k], rows[j])
                    /\ \A k \in 1..(j - 1) : SortsBefore(q, rows[k], rows[j])
                                              \/ SortsBefore(q, rows[j], rows[k])
             rest == [k \in 1..(Len(rows) - 1) |->
                         IF k < i THEN rows[k] ELSE rows[k + 1]]
         IN <<rows[i]>> \o OrderBy(q, rest)

Min(a, b) == IF a <= b THEN a ELSE b

\* a SELECT that cuts the page out of the filtered rows and ranks the page
ExecuteQuery_page_first(q, rows) ==
    LET filtered == Filter(q, rows)
        page == OrderBy(q, SubSeq(filtered, q.offset + 1,
                                  Min(Len(filtered), q.offset + q.limit)))
    IN [i \in 1..Len(page) |-> page[i].id]

\* cursor.execute(full_query, query_params); fetchall(): the ids of the rows
ExecuteQuery(q, rows) ==
    LET ranked == OrderBy(q, Filter(q, rows))
        page == SubSeq(ranked, q.offset + 1, Min(Len(ranked), q.offset + q.limit))
    IN [i \in 1..Len(page) |-> page[i].id]

(***************************************************************************)
(* The LRU cache of SQLiteClient (the one of VectorDBClient is the same    *)
(* code, modelled by the vec_ operators below).                            *)
(***************************************************************************)
Keys(c) == {c[i].key : i \in 1..Len(c)}

\* the OrderedDict without key k
Without(c, k) == SelectSeq(c, LAMBDA e : e.key # k)

Entry(c, k) == c[CHOOSE i \in 1..Len(c) : c[i].key = k]

\* Faulty variants of the cache operations, used to show that the properties
\* below tell the implementation from them.
\* a store that never evicts
put_in_cache_unbounded(c, size, key, value) ==
    LET removed == IF key \in Keys(c) THEN Without(c, key) ELSE c
    IN Append(removed, [key |-> key, value |-> value])

\* a lookup that does not move the entry to the end
get_from_cache_no_refresh(c, key) ==
    IF key \in Keys(c)
    THEN [found |-> TRUE, value |-> Entry(c, key).value, cache |-> c]
    ELSE [found |-> FALSE, value |-> <<>>, cache |-> c]

\* a freshness check that records the new marker but keeps the entries
check_db_updated_keep(c, seen, current) == [cache |-> c, seen |-> current]

\* a hit test by truthiness: an empty cached list counts as a miss
cached_result_is_truthy(got) == got.found /\ got.value # <<>>

\* _check_db_updated: [cache, seen] after comparing the marker
check_db_updated(c, seen, current) ==
    IF current # seen
    THEN [cache |-> <<>>, seen |-> current]
    ELSE [cache |-> c, seen |-> seen]

\* _get_from_cache: found, the value, and the cache with the key moved to the end
get_from_cache(c, key) ==
    IF key \in Keys(c)
    THEN [found |-> TRUE, value |-> Entry(c, key).value,
          cache |-> Append(Without(c, key), Entry(c, key))]
    ELSE [found |-> FALSE, value |-> <<>>, cache |-> c]

\* a store whose eviction test reads the length from before the insertion, as
\* a store split around another caller's store would
put_in_cache_racing(c, size, key, value) ==
    LET removed == IF key \in Keys(c) THEN Without(c, key) ELSE c
        added == Append(removed, [key |-> key, value |-> value])
    IN IF Len(removed) > size THEN Tail(added) ELSE added

\* _put_in_cache: the cache after the store and the eviction
put_in_cache(c, size, key, value) ==
    LET removed == IF key \in Keys(c) THEN Without(c, key) ELSE c
        added == Append(removed, [key |-> key, value |-> value])
    IN IF Len(added) > size THEN Tail(added) ELSE added

\* a failure that is caught and cached as an empty result
store_raised_cached(c, size, key) == put_in_cache(c, size, key, <<>>)

\* the store raises: the exception leaves query_movies or search before
\* _put_in_cache is reached
store_raised(c, size, key) == c

\* query_movies: "if cached_result is not None" (a result is a list, never None)
cached_result_is_not_None(got) == got.found

\* VectorDBClient._check_index_updated
check_index_updated(c, seen_index, seen_meta, cur_index, cur_meta) ==
    IF cur_index # seen_index \/ cur_meta # seen_meta
    THEN [cache |-> <<>>, seen_index |-> cur_index, seen_meta |-> cur_meta]
    ELSE [cache |-> c, seen_index |-> seen_index, seen_meta |-> seen_meta]

\* VectorDBClient._get_from_cache
vec_get_from_cache(c, key) ==
    IF key \in Keys(c)
    THEN [found |-> TRUE, value |-> Entry(c, key).value,
          cache |-> Append(Without(c, key), Entry(c, key))]
    ELSE [found |-> FALSE, value |-> <<>>, cache |-> c]

\* VectorDBClient.search: "if cached_result is not None"
vec_cached_result_is_not_None(got) == got.found

\* VectorDBClient._put_in_cache
vec_put_in_cache(c, size, key, value) ==
    LET removed == IF key \in Keys(c) THEN Without(c, key) ELSE c
        added == Append(removed, [key |-> key, value |-> value])
    IN IF Len(added) > size THEN Tail(added) ELSE added

\* str.split(): the maximal runs of non-blank characters
RECURSIVE SplitWs(_)
SplitWs(s) ==
    LET t == LStrip(s)
    IN IF t = <<>> THEN <<>>
       ELSE LET n == IF \E i \in 1..Len(t) : IsSpace(t[i])
                     THEN (CHOOSE i \in 1..Len(t) :
                              IsSpace(t[i]) /\ \A j \in 1..(i - 1) : ~IsSpace(t[j])) - 1
                     ELSE Len(t)
            IN <<SubSeq(t, 1, n)>> \o SplitWs(SubSeq(t, n + 1, Len(t)))

\* a key made of the text as given
vec_make_cache_key_raw(query_text, top_k) == [q |-> query_text, k |-> top_k]

\* VectorDBClient._make_cache_key: md5 of "<normalized query>:<top_k>"
vec_make_cache_key(query_text, top_k) ==
    [q |-> JoinWith(SplitWs(Lower(query_text)), <<" ">>), k |-> top_k]

\* FaissHNSWMovieVectorDB.search: the neighbours of the embedding of the text
\* as given, kept abstract
VectorSearch(query_text, top_k) == [text |-> query_text, k |-> top_k]

(***************************************************************************)
(* Parameter sets and the ways two of them may differ "only in letter      *)
(* case, surrounding whitespace, order, duplication or list-vs-delimited   *)
(* string".                                                                *)
(***************************************************************************)
S_a == <<"a">>
S_d == <<"d">>

MultiValued == {"genre", "cast"}
StringFields == {"genre", "cast", "director", "title", "order_by", "order_dir"}

\* parameter sets query_movies is called with
KeyInputs ==
    [genre : {PyNone, PyStr(S_a), PyStr(<<"a", ",", "d">>),
              PyList(<<S_a>>), PyList(<<S_a, S_d>>)},
     year : {PyNone},
     year_min : {PyNone},
     year_max : {PyNone},
     cast : {PyNone, PyList(<<S_d>>)},
     director : {PyNone},
     title : {PyNone, PyStr(S_a)},
     limit : {PyInt(5)},
     offset : {PyInt(0)},
     order_by : {PyStr(S_title)},
     order_dir : {PyStr(S_DESC)}]

FlipChar(c) == IF LowerChar(c) # c THEN LowerChar(c) ELSE UpperChar(c)

\* the same string with the case of one letter changed
CaseVariants(s) ==
    {[s EXCEPT ![i] = FlipChar(s[i])] :
        i \in {j \in 1..Len(s) : FlipChar(s[j]) # s[j]}}

\* the same string with one more leading or trailing blank
PadVariants(s) == {<<" ">> \o s, s \o <<" ">>}

\* a string variation applied to a str, or to one element of a list
ValueVariants(v, F(_)) ==
    CASE v.t = "str" -> {PyStr(x) : x \in F(v.s)}
      [] v.t = "list" ->
            UNION {{PyList([v.l EXCEPT ![i] = x]) : x \in F(v.l[i])} :
                      i \in 1..Len(v.l)}
      [] OTHER -> {}

Swap(l, i, j) == [l EXCEPT ![i] = l[j], ![j] = l[i]]

\* the same values in another order
OrderVariants(v) ==
    CASE v.t = "list" ->
            {PyList(Swap(v.l, i, j)) : i, j \in 1..Len(v.l)} \ {v}
      [] v.t = "str" ->
            LET toks == SplitComma(v.s)
            IN {PyStr(JoinWith(Swap(toks, i, j), <<",">>)) :
                    i, j \in 1..Len(toks)} \ {v}
      [] OTHER -> {}

\* the same values with one of them repeated
DupVariants(v) ==
    CASE v.t = "list" -> {PyList(Append(v.l, v.l[i])) : i \in 1..Len(v.l)}
      [] v.t = "str" ->
            LET toks == SplitComma(v.s)
            IN {PyStr(v.s \o <<",">> \o toks[i]) : i \in 1..Len(toks)}
      [] OTHER -> {}

\* the values of a list given as one comma-delimited string instead
JoinVariants(v) ==
    IF v.t = "list" /\ Len(v.l) >= 2
    THEN {PyList(<<JoinWith(v.l, <<",", " ">>)>>), PyStr(JoinWith(v.l, <<",">>))}
    ELSE {}

\* a query_movies call with no filter
BaseKw ==
    [genre |-> PyNone, year |-> PyNone, year_min |-> PyNone, year_max |-> PyNone,
     cast |-> PyNone, director |-> PyNone, title |-> PyNone, limit |-> PyInt(5),
     offset |-> PyInt(0), order_by |-> PyStr(S_title), order_dir |-> PyStr(S_ASC)]

NoLast ==
    [op |-> "init", kw |-> <<>>, key |-> <<>>, hit |-> FALSE, ret |-> <<>>,
     store |-> FALSE, evicted |-> {}, stale |-> {}, rep |-> FALSE]

\* the components a specification leaves alone
\* a coroutine that is not inside a call
NoTask == [pc |-> "idle", op |-> "none", thread |-> "none", lock |-> 0]
\* no call has ended yet
NoEnded == [thread |-> "none", lock |-> 0, raised |-> "none", got |-> "none",
            clean |-> TRUE]

Tasks == 1..MaxTasks

\* no lock was put into _thread_locks yet
NoInserted == [thread |-> "none", lock |-> 0, held |-> FALSE]
\* asyncio.Lock() of _lock_cleanup_lock, free
CleanupLockFree == [locked |-> FALSE, holder |-> 0]
\* nobody is in close()
NoCloser == [pc |-> "idle", n |-> 0]

AgentIdle ==
    /\ inserted = NoInserted
    /\ lock_cleanup_lock = CleanupLockFree
    /\ closer = NoCloser
    /\ tasks = [t \in Tasks |-> NoTask]
    /\ thread_locks = <<>>
    /\ locks = <<>>
    /\ tools = FALSE
    /\ saver = 0
    /\ agent = 0
    /\ saver_contexts = 0
    /\ issued = <<>>
    /\ ended = NoEnded

Users == {"u1", "u2"}
ChatIds == {"c1", "c2"}
Pairs == Users \X (ChatIds \cup {"c0"})
Reqs == 1..MaxReqs

EmptyFn == [x \in {} |-> "none"]

\* a request slot with no request in it
NoReq == [pc |-> "idle", kind |-> "none", user |-> "none", chat |-> "none",
          read |-> "none", wrote |-> FALSE, expect |-> "none",
          is_new_user |-> FALSE, is_new_chat |-> FALSE]

NoResp == [kind |-> "none", user |-> "none", chat |-> "none",
           out |-> [code |-> 0, detail |-> "none"], src |-> "none",
           wrote |-> FALSE, owner |-> "none", expect |-> "none"]

NoChain == [on |-> FALSE, user |-> "none", chat |-> "none", outs |-> <<>>]

\* no users, and no request has done anything
ApiIdle ==
    /\ users = {}
    /\ ucache = {}
    /\ did = [r \in Reqs |-> {}]
    /\ nreq = 0

\* the clock has not run
TimeIdle ==
    /\ now = 0
    /\ expires = [p \in Pairs |-> 0]
    /\ archived_at = [c \in ChatIds \cup {"c0"} |-> -1]
    /\ started = [r \in Reqs |-> 0]

SessIdle ==
    /\ chats = EmptyFn
    /\ redis = EmptyFn
    /\ redis_up = TRUE
    /\ reqs = [r \in Reqs |-> NoReq]
    /\ resp = NoResp
    /\ fresh = [p \in Pairs |-> "none"]
    /\ chain = NoChain
    /\ TimeIdle
    /\ ApiIdle

\* no call of the SQL tool or its handler has returned
NoResult ==
    [op |-> "none", raised |-> "none", reached |-> FALSE, success |-> FALSE,
     error |-> "none", count |-> 0, movies |-> <<>>]

\* the coroutines that call a client, and one that has no call scheduled
CacheCallers == 1..MaxCallers
NoCall == [pc |-> "idle", kw |-> <<>>]

\* nothing uses the tools
ToolIdle == result = NoResult /\ callers = [c \in CacheCallers |-> NoCall]

KeyIdle == kwargs1 = BaseKw /\ kwargs2 = BaseKw /\ nvary = 0 /\ ToolIdle
CacheIdle ==
    /\ client = "sql" /\ cache = <<>> /\ cache_size = 1
    /\ db_mtime = 1 /\ index_mtime = 0 /\ meta_mtime = 0
    /\ db_file = [mtime |-> 1, rows |-> CatalogA]
    /\ index_file = 0 /\ meta_file = 0
    /\ last = NoLast /\ recency = <<>>

KeyInit ==
    /\ kwargs1 \in KeyInputs
    /\ kwargs2 = kwargs1
    /\ nvary = 0
    /\ ToolIdle
    /\ CacheIdle
    /\ AgentIdle
    /\ SessIdle

Vary(f, v) ==
    /\ nvary < MaxVary
    /\ kwargs2' = [kwargs2 EXCEPT ![f] = v]
    /\ nvary' = nvary + 1
    /\ UNCHANGED <<kwargs1, toolVars, cacheVars, agentVars, sessVars>>

VaryCase == \E f \in StringFields :
    \E v \in ValueVariants(kwargs2[f], CaseVariants) : Vary(f, v)

VaryPad == \E f \in StringFields :
    \E v \in ValueVariants(kwargs2[f], PadVariants) : Vary(f, v)

VaryOrder == \E f \in MultiValued :
    \E v \in OrderVariants(kwargs2[f]) : Vary(f, v)

VaryDup == \E f \in MultiValued :
    \E v \in DupVariants(kwargs2[f]) : Vary(f, v)

VaryJoin == \E f \in MultiValued :
    \E v \in JoinVariants(kwargs2[f]) : Vary(f, v)

KeyNext == VaryCase \/ VaryPad \/ VaryOrder \/ VaryDup \/ VaryJoin

SpecKey == KeyInit /\ [][KeyNext]_vars

\* C4: two parameter sets that differ only in letter case, surrounding
\* whitespace, or the order, duplication or list-vs-delimited-string form of
\* a multi-valued filter get the same cache key.
KeyNormalizationInvariance ==
    sql_make_cache_key(kwargs1) = sql_make_cache_key(kwargs2)

\* C5: two parameter sets with the same cache key ask the catalog store the
\* same query (same filters, same effective order, same limit and offset).
SameKeySameQuery ==
    sql_make_cache_key(kwargs1) = sql_make_cache_key(kwargs2)
        => EffectiveQuery(kwargs1) = EffectiveQuery(kwargs2)


(***************************************************************************)
(* One query client: its cache operations, query_movies / search, and the  *)
(* files changing behind it.                                               *)
(***************************************************************************)
\* the query_movies calls made
SqlQueries ==
    {BaseKw,
     [BaseKw EXCEPT !.title = PyStr(<<"a">>)],
     [BaseKw EXCEPT !.title = PyStr(<<"a", " ">>)],
     [BaseKw EXCEPT !.year = PyInt(5)]}

\* the search calls made
VecQueries ==
    {[query_text |-> <<"a", " ", "d">>, top_k |-> 5],
     [query_text |-> <<"A", " ", " ", "d">>, top_k |-> 5],
     [query_text |-> <<"a", " ", "d">>, top_k |-> 1],
     [query_text |-> <<"d">>, top_k |-> 5]}

PoolKeys ==
    IF client = "sql"
    THEN {sql_make_cache_key(kw) : kw \in SqlQueries}
    ELSE {vec_make_cache_key(a.query_text, a.top_k) : a \in VecQueries}

\* values stored by a direct _put_in_cache
PutValues == {<<1>>}

\* recency bookkeeping: key k was just used
Use(r, k) == Append(SelectSeq(r, LAMBDA x : x # k), k)
Restrict(r, ks) == SelectSeq(r, LAMBDA x : x \in ks)

CacheInit ==
    /\ client \in {"sql", "vec"}
    /\ cache = <<>>
    /\ cache_size \in 0..MaxCacheSize
    /\ db_file = [mtime |-> 1, rows |-> CatalogA]
    /\ index_file = IF client = "vec" THEN 1 ELSE 0
    /\ meta_file = IF client = "vec" THEN 1 ELSE 0
    /\ db_mtime = db_file.mtime
    /\ index_mtime = index_file
    /\ meta_mtime = meta_file
    /\ last = NoLast
    /\ recency = <<>>
    /\ KeyIdle
    /\ AgentIdle
    /\ SessIdle

\* _get_from_cache(key)
GetFromCache(key) ==
    LET got == IF client = "sql" THEN get_from_cache(cache, key)
                                 ELSE vec_get_from_cache(cache, key)
    IN /\ cache' = got.cache
       /\ last' = [NoLast EXCEPT !.op = "get", !.key = key, !.hit = got.found,
                                 !.ret = got.value]
       /\ recency' = IF got.found THEN Use(recency, key) ELSE recency
       /\ UNCHANGED <<client, cache_size, db_mtime, index_mtime, meta_mtime,
                      db_file, index_file, meta_file, keyVars, agentVars, sessVars>>

\* _put_in_cache(key, value)
PutInCache(key, value) ==
    /\ cache' = IF client = "sql" THEN put_in_cache(cache, cache_size, key, value)
                                  ELSE vec_put_in_cache(cache, cache_size, key, value)
    /\ last' = [NoLast EXCEPT !.op = "put", !.key = key, !.ret = value,
                              !.evicted = (Keys(cache) \cup {key}) \ Keys(cache')]
    /\ recency' = Restrict(Use(recency, key), Keys(cache'))
    /\ UNCHANGED <<client, cache_size, db_mtime, index_mtime, meta_mtime,
                   db_file, index_file, meta_file, keyVars, agentVars, sessVars>>

\* clear_cache()
ClearCache ==
    /\ cache' = <<>>
    /\ last' = [NoLast EXCEPT !.op = "clear"]
    /\ recency' = <<>>
    /\ UNCHANGED <<client, cache_size, db_mtime, index_mtime, meta_mtime,
                   db_file, index_file, meta_file, keyVars, agentVars, sessVars>>

\* query_movies(**kw); ok = FALSE when the catalog store raises
query_movies(kw, ok) ==
    LET chk == check_db_updated(cache, db_mtime, db_file.mtime)
        key == sql_make_cache_key(kw)
        got == get_from_cache(chk.cache, key)
        results == ExecuteQuery(BoundQuery(kw), db_file.rows)
        r1 == Restrict(recency, Keys(chk.cache))
        stale == Keys(cache) \ Keys(chk.cache)
        rep == last.op = "query" /\ last.kw = kw
    IN /\ client = "sql"
       /\ db_mtime' = chk.seen
       /\ IF cached_result_is_not_None(got)
          THEN /\ ok
               /\ cache' = got.cache
               /\ last' = [NoLast EXCEPT !.op = "query", !.kw = kw, !.key = key,
                                         !.hit = TRUE, !.ret = got.value,
                                         !.stale = stale, !.rep = rep]
               /\ recency' = Use(r1, key)
          ELSE IF ok
          THEN /\ cache' = put_in_cache(got.cache, cache_size, key, results)
               /\ last' = [NoLast EXCEPT
                              !.op = "query", !.kw = kw, !.key = key,
                              !.ret = results, !.store = TRUE,
                              !.stale = stale, !.rep = rep,
                              !.evicted = (Keys(got.cache) \cup {key}) \ Keys(cache')]
               /\ recency' = Restrict(Use(r1, key), Keys(cache'))
          ELSE /\ cache' = store_raised(got.cache, cache_size, key)
               /\ last' = [NoLast EXCEPT !.op = "query_error", !.kw = kw,
                                         !.key = key, !.store = TRUE,
                                         !.stale = stale, !.rep = rep]
               /\ recency' = Restrict(IF got.found THEN Use(r1, key) ELSE r1,
                                      Keys(cache'))
       /\ UNCHANGED <<client, cache_size, index_mtime, meta_mtime,
                      db_file, index_file, meta_file>>

\* a call of query_movies on the client by itself
QueryMovies(kw, ok) ==
    query_movies(kw, ok) /\ UNCHANGED <<keyVars, agentVars, sessVars>>

\* search(query_text, top_k); ok = FALSE when the semantic index raises
search(a, ok) ==
    LET chk == check_index_updated(cache, index_mtime, meta_mtime,
                                   index_file, meta_file)
        key == vec_make_cache_key(a.query_text, a.top_k)
        got == vec_get_from_cache(chk.cache, key)
        results == VectorSearch(a.query_text, a.top_k)
        r1 == Restrict(recency, Keys(chk.cache))
        stale == Keys(cache) \ Keys(chk.cache)
        rep == last.op = "search" /\ last.kw = a
    IN /\ client = "vec"
       /\ index_mtime' = chk.seen_index
       /\ meta_mtime' = chk.seen_meta
       /\ IF vec_cached_result_is_not_None(got)
          THEN /\ ok
               /\ cache' = got.cache
               /\ last' = [NoLast EXCEPT !.op = "search", !.kw = a, !.key = key,
                                         !.hit = TRUE, !.ret = got.value,
                                         !.stale = stale, !.rep = rep]
               /\ recency' = Use(r1, key)
          ELSE IF ok
          THEN /\ cache' = vec_put_in_cache(got.cache, cache_size, key, results)
               /\ last' = [NoLast EXCEPT
                              !.op = "search", !.kw = a, !.key = key,
                              !.ret = results, !.store = TRUE,
                              !.stale = stale, !.rep = rep,
                              !.evicted = (Keys(got.cache) \cup {key}) \ Keys(cache')]
               /\ recency' = Restrict(Use(r1, key), Keys(cache'))
          ELSE /\ cache' = store_raised(got.cache, cache_size, key)
               /\ last' = [NoLast EXCEPT !.op = "search_error", !.kw = a,
                                         !.key = key, !.store = TRUE,
                                         !.stale = stale, !.rep = rep]
               /\ recency' = Restrict(IF got.found THEN Use(r1, key) ELSE r1,
                                      Keys(cache'))
       /\ UNCHANGED <<client, cache_size, db_mtime,
                      db_file, index_file, meta_file>>

\* a call of search on the client by itself
Search(a, ok) ==
    search(a, ok) /\ UNCHANGED <<keyVars, agentVars, sessVars>>

\* the ingestion pipeline rewrites the database file
TouchDb ==
    /\ client = "sql"
    /\ \E m \in (1..MaxMtime) \ {db_file.mtime}, rows \in Catalogs :
          db_file' = [mtime |-> m, rows |-> rows]
    /\ last' = [NoLast EXCEPT !.op = "touch"]
    /\ UNCHANGED <<client, cache, cache_size, db_mtime, index_mtime, meta_mtime,
                   index_file, meta_file, recency, keyVars, agentVars, sessVars>>

\* the vector pipeline rewrites the index file or the metadata file
TouchIndex ==
    /\ client = "vec"
    /\ \E m \in (1..MaxMtime) \ {index_file} : index_file' = m
    /\ last' = [NoLast EXCEPT !.op = "touch"]
    /\ UNCHANGED <<client, cache, cache_size, db_mtime, index_mtime, meta_mtime,
                   db_file, meta_file, recency, keyVars, agentVars, sessVars>>

TouchMeta ==
    /\ client = "vec"
    /\ \E m \in (1..MaxMtime) \ {meta_file} : meta_file' = m
    /\ last' = [NoLast EXCEPT !.op = "touch"]
    /\ UNCHANGED <<client, cache, cache_size, db_mtime, index_mtime, meta_mtime,
                   db_file, index_file, recency, keyVars, agentVars, sessVars>>

CacheNext ==
    \/ \E key \in PoolKeys : GetFromCache(key)
    \/ \E key \in PoolKeys, value \in PutValues : PutInCache(key, value)
    \/ ClearCache
    \/ \E kw \in SqlQueries, ok \in BOOLEAN : QueryMovies(kw, ok)
    \/ \E a \in VecQueries, ok \in BOOLEAN : Search(a, ok)
    \/ TouchDb
    \/ TouchIndex
    \/ TouchMeta

SpecCache == CacheInit /\ [][CacheNext]_vars


KeyOrder(c) == [i \in 1..Len(c) |-> c[i].key]

\* C2: with cache_size >= 1 the cache of either client never holds more than
\* cache_size entries, whatever lookups, stores, clears and invalidations ran.
CacheSizeBounded == cache_size >= 1 => Len(cache) <= cache_size

\* a store into a full cache has just evicted an entry
CacheSizeBoundedWitness ==
    /\ last.op \in {"put", "query", "search"}
    /\ last.evicted # {}
    /\ cache_size >= 1
    /\ Len(cache) = cache_size

\* C3: a _put_in_cache of an absent key into a full cache removes exactly one
\* entry, the one least recently used (by hit or store); every other key stays
\* and the new key is cached; a _put_in_cache of a present key removes nothing
\* and makes that key the most recent; a lookup hits exactly the cached keys.
LRUStep ==
    /\ last'.op = "put" =>
          LET k == last'.key
          IN IF k \notin Keys(cache) /\ Len(cache) + 1 > cache_size
             THEN /\ last'.evicted = {Head(Append(recency, k))}
                  /\ Keys(cache') = (Keys(cache) \cup {k}) \ last'.evicted
                  /\ Len(cache') = Len(cache)
             ELSE /\ last'.evicted = {}
                  /\ Keys(cache') = Keys(cache) \cup {k}
                  /\ cache'[Len(cache')].key = k
    /\ last'.op = "get" =>
          /\ last'.hit <=> last'.key \in Keys(cache)
          /\ Keys(cache') = Keys(cache)

LRUEviction == [](KeyOrder(cache) = recency) /\ [][LRUStep]_vars

\* a store evicted an entry other than the oldest inserted one: the entry
\* at the head had been refreshed by a lookup
LRUEvictionWitness ==
    /\ last.op = "put"
    /\ cache_size = 2
    /\ Cardinality(last.evicted) = 1
    /\ last.key \notin last.evicted
    /\ Len(cache) = 2


\* C6: when the modification marker of the backing file differs from the one
\* last seen, the next query_movies / search misses whatever its key, goes to
\* the store, and records the new marker; with the marker unchanged a cached
\* key is served from the cache without going to the store.
FreshnessStep ==
    /\ (client = "sql" /\ last'.op \in {"query", "query_error"}) =>
          IF db_file.mtime # db_mtime
          THEN /\ ~last'.hit
               /\ last'.store
               /\ last'.stale = Keys(cache)
               /\ Keys(cache') \subseteq {last'.key}
               /\ db_mtime' = db_file.mtime
          ELSE /\ db_mtime' = db_mtime
               /\ last'.key \in Keys(cache) =>
                     /\ last'.hit
                     /\ ~last'.store
                     /\ last'.ret = Entry(cache, last'.key).value
    /\ (client = "vec" /\ last'.op \in {"search", "search_error"}) =>
          IF index_file # index_mtime \/ meta_file # meta_mtime
          THEN /\ ~last'.hit
               /\ last'.store
               /\ last'.stale = Keys(cache)
               /\ Keys(cache') \subseteq {last'.key}
               /\ index_mtime' = index_file
               /\ meta_mtime' = meta_file
          ELSE /\ index_mtime' = index_mtime
               /\ meta_mtime' = meta_mtime
               /\ last'.key \in Keys(cache) =>
                     /\ last'.hit
                     /\ ~last'.store
                     /\ last'.ret = Entry(cache, last'.key).value

FreshnessInvalidation == [][FreshnessStep]_vars

\* a query whose key was cached under the old marker has just missed, gone to
\* the store and been cached again under the new marker
FreshnessInvalidationWitness ==
    /\ last.op \in {"query", "search"}
    /\ last.key \in last.stale
    /\ ~last.hit
    /\ last.store
    /\ last.key \in Keys(cache)

\* C7: of two consecutive identical query_movies / search calls with the
\* marker unchanged and the entry not evicted in between, the second returns
\* what the first returned, an empty list included, without going to the store.
IdempotentStep ==
    (/\ last'.op \in {"query", "query_error", "search", "search_error"}
     /\ last'.rep
     /\ last.op \in {"query", "search"}
     /\ last'.stale = {}
     /\ last.key \in Keys(cache)) =>
        /\ last'.op = last.op
        /\ last'.hit
        /\ ~last'.store
        /\ last'.ret = last.ret

IdempotentRead == [][IdempotentStep]_vars

\* the second of two identical calls was served an empty list from the cache
IdempotentReadWitness ==
    /\ last.op = "query"
    /\ last.rep
    /\ last.hit
    /\ ~last.store
    /\ last.ret = <<>>

\* C27: a client cannot exist with a cache_size of zero or less: SQLiteClient
\* and VectorDBClient reject such a size when they are constructed.
CacheSizePositive == cache_size >= 1

(***************************************************************************)
(* search called twice, with a request and with a respelling of it.        *)
(***************************************************************************)
\* the same text with one blank between two words doubled
SpaceVariants(s) ==
    {SubSeq(s, 1, i) \o <<" ">> \o SubSeq(s, i + 1, Len(s)) :
        i \in {j \in 1..Len(s) : IsSpace(s[j])}}

\* the values of top_k asked for
TopKs == {a.top_k : a \in VecQueries}

\* kwargs1 is a search request, kwargs2 starts as the same request
VecKeyInit ==
    /\ client = "vec"
    /\ cache = <<>>
    /\ cache_size \in 0..MaxCacheSize
    /\ db_file = [mtime |-> 1, rows |-> CatalogA]
    /\ index_file = 1 /\ meta_file = 1
    /\ db_mtime = db_file.mtime
    /\ index_mtime = index_file
    /\ meta_mtime = meta_file
    /\ last = NoLast
    /\ recency = <<>>
    /\ kwargs1 \in VecQueries
    /\ kwargs2 = kwargs1
    /\ nvary = 0
    /\ ToolIdle
    /\ AgentIdle
    /\ SessIdle

\* the second request is respelled: the case of a letter, a blank before or
\* after the text, one more blank between two words
VaryText ==
    /\ nvary < MaxVary
    /\ \E v \in CaseVariants(kwargs2.query_text)
                 \cup PadVariants(kwargs2.query_text)
                 \cup SpaceVariants(kwargs2.query_text) :
          kwargs2' = [kwargs2 EXCEPT !.query_text = v]
    /\ nvary' = nvary + 1
    /\ UNCHANGED <<kwargs1, toolVars, cacheVars, agentVars, sessVars>>

\* the second request asks for another number of results
VaryTopK ==
    /\ nvary < MaxVary
    /\ \E k \in TopKs \ {kwargs2.top_k} : kwargs2' = [kwargs2 EXCEPT !.top_k = k]
    /\ nvary' = nvary + 1
    /\ UNCHANGED <<kwargs1, toolVars, cacheVars, agentVars, sessVars>>

\* search is called with the first request, with the second
SearchFirst(ok) == Search(kwargs1, ok)
SearchSecond(ok) == Search(kwargs2, ok)

VecKeyNext ==
    \/ VaryText
    \/ VaryTopK
    \/ \E ok \in BOOLEAN : SearchFirst(ok)
    \/ \E ok \in BOOLEAN : SearchSecond(ok)
    \/ TouchIndex
    \/ TouchMeta

SpecVecKey == VecKeyInit /\ [][VecKeyNext]_vars

VectorKeyStep ==
    /\ kwargs1.top_k = kwargs2.top_k =>
          vec_make_cache_key(kwargs1.query_text, kwargs1.top_k)
             = vec_make_cache_key(kwargs2.query_text, kwargs2.top_k)
    /\ kwargs1.top_k # kwargs2.top_k =>
          vec_make_cache_key(kwargs1.query_text, kwargs1.top_k)
             # vec_make_cache_key(kwargs2.query_text, kwargs2.top_k)
    /\ (/\ last.op = "search" /\ last.kw = kwargs1
        /\ nvary' = nvary
        /\ last'.op \in {"search", "search_error"} /\ last'.kw = kwargs2
        /\ kwargs1.top_k = kwargs2.top_k
        /\ cache_size >= 1
        /\ last'.stale = {}) =>
          /\ last'.op = "search"
          /\ last'.key = last.key
          /\ last'.hit /\ ~last'.store
          /\ last'.ret = last.ret

\* C34: _make_cache_key gives two (query_text, top_k) requests the same key
\* when top_k is equal and the texts differ only in letter case or in
\* leading, trailing or repeated internal whitespace, and different keys when
\* top_k differs; hence a search repeated in another spelling right after the
\* first, on a client that caches (cache_size >= 1) and with the index files
\* unchanged, is served from the cache without calling the semantic index.
VectorKey == [][VectorKeyStep]_vars

\* the second request, spelled differently, has just been served from the
\* cache with the results stored for the first
VectorKeyWitness ==
    /\ last.op = "search" /\ last.kw = kwargs2
    /\ last.hit /\ ~last.store
    /\ kwargs2.query_text # kwargs1.query_text
    /\ kwargs2.top_k = kwargs1.top_k
    /\ nvary = MaxVary
    /\ last.ret = VectorSearch(kwargs1.query_text, kwargs1.top_k)

\* the cache as the update check at the start of query_movies or search leaves it
AfterUpdateCheck ==
    IF client = "sql"
    THEN check_db_updated(cache, db_mtime, db_file.mtime).cache
    ELSE check_index_updated(cache, index_mtime, meta_mtime,
                             index_file, meta_file).cache

\* the call that has just returned raised the store's error
StoreRaised == last.op \in {"query_error", "search_error"}

\* C32 as stated: if the catalog query inside query_movies, or the index
\* search inside search, fails, the cache is left exactly as it was before
\* the call: no entry is added, removed or reordered.
FailedCallKeepsCacheStep == StoreRaised' => cache' = cache
FailedCallKeepsCache == [][FailedCallKeepsCacheStep]_vars

\* C32, amended: if the catalog query or the index search fails, the error
\* reaches the caller with no result, and the cache is left as the update
\* check at the start of the call left it: emptied when the file changed
\* since the last check, otherwise exactly as before the call; the failed
\* call itself adds, removes and reorders nothing.
FailedCallStep ==
    StoreRaised' =>
       /\ cache' = AfterUpdateCheck
       /\ last'.stale = {} => cache' = cache
       /\ last'.stale # {} => cache' = <<>>
       /\ last'.key \notin Keys(cache')
       /\ last'.ret = <<>> /\ ~last'.hit
FailedCall == [][FailedCallStep]_vars

\* a call has just failed on a client whose cache holds entries, none of
\* them stale
FailedCallWitness ==
    /\ StoreRaised
    /\ last.stale = {}
    /\ Len(cache) >= 2

(***************************************************************************)
(* Several coroutines calling query_movies or search on one client.  The   *)
(* server's tools are coroutines of one event loop; query_movies and       *)
(* search are plain functions without a suspension point, so a call that   *)
(* has been scheduled runs from its lookup to its store in one step, and   *)
(* the scheduled calls run in any order.                                   *)
(***************************************************************************)
\* a tool coroutine is scheduled with a request for the client
Submit(c, kw) ==
    /\ callers[c].pc = "idle"
    /\ callers' = [callers EXCEPT ![c] = [pc |-> "pending", kw |-> kw]]
    /\ UNCHANGED <<kwargs1, kwargs2, nvary, result, cacheVars, agentVars, sessVars>>

\* the event loop runs the scheduled call of query_movies to its end
RunQuery(c, ok) ==
    /\ callers[c].pc = "pending"
    /\ query_movies(callers[c].kw, ok)
    /\ callers' = [callers EXCEPT ![c] = NoCall]
    /\ UNCHANGED <<kwargs1, kwargs2, nvary, result, agentVars, sessVars>>

\* the event loop runs the scheduled call of search to its end
RunSearch(c, ok) ==
    /\ callers[c].pc = "pending"
    /\ search(callers[c].kw, ok)
    /\ callers' = [callers EXCEPT ![c] = NoCall]
    /\ UNCHANGED <<kwargs1, kwargs2, nvary, result, agentVars, sessVars>>

CallersNext ==
    \/ \E c \in CacheCallers :
          \E kw \in (IF client = "sql" THEN SqlQueries ELSE VecQueries) :
             Submit(c, kw)
    \/ \E c \in CacheCallers, ok \in BOOLEAN : RunQuery(c, ok)
    \/ \E c \in CacheCallers, ok \in BOOLEAN : RunSearch(c, ok)
    \/ TouchDb
    \/ TouchIndex
    \/ TouchMeta

SpecCallers == CacheInit /\ [][CallersNext]_vars

\* what one call that ran among other scheduled calls did to the cache
CriticalSectionStep ==
    \A c \in CacheCallers :
       (callers[c].pc = "pending" /\ callers'[c].pc = "idle") =>
          LET key == last'.key
              before == Keys(cache) \ last'.stale
          IN /\ cache_size >= 1 => Len(cache') <= cache_size
             /\ Cardinality(Keys(cache')) = Len(cache')
             /\ Cardinality(last'.evicted) <= 1
             /\ last'.evicted \subseteq before \cup {key}
             /\ last'.evicted \cap Keys(cache') = {}
             /\ Keys(cache') \subseteq before \cup {key}
             /\ last'.hit =>
                   /\ key \in before
                   /\ last'.ret = Entry(cache, key).value
                   /\ cache'[Len(cache')].key = key
                   /\ Keys(cache') = before
             /\ last'.op \in {"query_error", "search_error"} =>
                   /\ ~last'.hit
                   /\ Keys(cache') = before

CatalogR ==
    <<Row(1, <<"a">>, 1, <<<<"a">>>>, <<<<"c">>>>, 8),
      Row(2, <<"d">>, 2, <<<<"a">>, <<"d">>>>, <<<<"c">>, <<"e">>>>, 7),
      Row(3, <<"e">>, 2, <<<<"a">>, <<"a", "e">>>>, <<>>, 9),
      Row(4, <<"a", "d">>, 3, <<<<"d">>>>, <<<<"c">>>>, 6)>>

\* the query_movies calls made: always with a genre filter, some with a
\* title filter, some with a cast filter
RankQueries ==
    {[BaseKw EXCEPT !.genre = g, !.title = t, !.order_by = ob, !.order_dir = od] :
        g \in {PyList(<<<<"a">>>>), PyList(<<<<"a">>, <<"d">>>>)},
        t \in {PyNone, PyStr(<<"d">>)},
        ob \in {PyStr(S_rating), PyStr(<<"x">>)},
        od \in {PyStr(S_ASC), PyStr(S_DESC)}}
    \cup
    {[BaseKw EXCEPT !.genre = PyList(<<<<"a">>, <<"d">>>>),
                    !.cast = PyList(<<<<"c">>>>),
                    !.order_by = PyStr(S_rating), !.order_dir = od] :
        od \in {PyStr(S_ASC), PyStr(S_DESC)}}

RankInit ==
    /\ client = "sql"
    /\ cache = <<>>
    /\ cache_size = 1
    /\ db_file \in {[mtime |-> 1, rows |-> rows] : rows \in {CatalogA, CatalogR}}
    /\ index_file = 0
    /\ meta_file = 0
    /\ db_mtime = db_file.mtime
    /\ index_mtime = index_file
    /\ meta_mtime = meta_file
    /\ last = NoLast
    /\ recency = <<>>
    /\ KeyIdle
    /\ AgentIdle
    /\ SessIdle

RankNext == \E kw \in RankQueries : QueryMovies(kw, TRUE)

SpecRank == RankInit /\ [][RankNext]_vars

\* the row of the movies table with this id
RowOf(id) == CHOOSE m \in Range(db_file.rows) : m.id = id

\* some element of the row's JSON list matches the requested value
HasValue(field, v) == \E i \in 1..Len(field) : LikeMatch(field[i], LikeParam(v))

\* the row has every requested genre and every requested cast member
FullMatch(kw, m) ==
    /\ \A v \in Range(normalize_list(kw.genre)) : HasValue(m.genres, v)
    /\ \A v \in Range(normalize_list(kw.cast)) : HasValue(m.cast, v)

\* C20: in what a query_movies with a genre filter gets from the store, no
\* row that matches the requested genres and cast only in part comes before
\* a row that has them all, and rows alike in that respect come in the order
\* of the effective order_by column in direction order_dir.
RankingOrder ==
    (/\ last.op = "query"
     /\ last.store
     /\ normalize_list(last.kw.genre) # <<>>) =>
        \A i, j \in 1..Len(last.ret) :
            i < j =>
                LET m1 == RowOf(last.ret[i])
                    m2 == RowOf(last.ret[j])
                IN /\ ~(~FullMatch(last.kw, m1) /\ FullMatch(last.kw, m2))
                   /\ (FullMatch(last.kw, m1) <=> FullMatch(last.kw, m2))
                         => ~FieldBefore(EffectiveQuery(last.kw), m2, m1)

\* C39: for a multi-valued filter with two or more requested values (here
\* genre, alone in the query), query_movies ranks a row in the top, fully
\* matching group only if each requested value matches at least one element
\* of the row's field: a row in which one requested value matches several
\* elements and another matches none is not ranked as fully matching.
TopGroupMatchesAll ==
    (/\ last.op = "query"
     /\ last.store
     /\ Len(normalize_list(last.kw.genre)) >= 2
     /\ normalize_list(last.kw.cast) = <<>>
     /\ last.kw.title.t = "none" /\ last.kw.director.t = "none"
     /\ last.kw.year.t = "none"
     /\ last.kw.year_min.t = "none" /\ last.kw.year_max.t = "none") =>
        \A i \in 1..Len(last.ret) :
            Ranking(BoundQuery(last.kw), RowOf(last.ret[i])) = 1 =>
                \A v \in Range(normalize_list(last.kw.genre)) :
                    HasValue(RowOf(last.ret[i]).genres, v)


(***************************************************************************)
(* query_movies over its filters, ordering and pagination: one parameter   *)
(* set is queried, then its next page.                                     *)
(***************************************************************************)
\* the movies table of CatalogR with one more row, whose genre is a number
CatalogY == Append(CatalogR, Row(5, <<"f">>, 3, <<<<"2">>>>, <<>>, 5))

\* limit and offset of the calls made
Pages == {<<0, 0>>, <<2, 0>>, <<5, 0>>, <<2, 1>>}
\* year_min and year_max of the calls made
YearRanges == {<<PyNone, PyNone>>, <<PyInt(2), PyNone>>, <<PyNone, PyInt(2)>>}

FilterQueries ==
    {[BaseKw EXCEPT !.genre = g, !.cast = c, !.year = y, !.year_min = yr[1],
                    !.year_max = yr[2], !.title = t, !.limit = PyInt(pg[1]),
                    !.offset = PyInt(pg[2]), !.order_by = ob, !.order_dir = od] :
        g \in {PyNone, PyStr(<<"a">>), PyList(<<<<"a">>, <<"d">>>>)},
        c \in {PyNone, PyList(<<<<"c">>>>)},
        y \in {PyNone, PyInt(2)},
        yr \in YearRanges,
        t \in {PyNone, PyStr(<<"d">>)},
        pg \in Pages,
        ob \in {PyStr(S_rating), PyStr(<<"x">>)},
        od \in {PyStr(S_ASC), PyStr(S_DESC)}}
    \cup
    {[BaseKw EXCEPT !.genre = PyStr(<<"2">>), !.year = y, !.year_min = yr[1],
                    !.year_max = yr[2], !.limit = PyInt(5), !.offset = PyInt(0),
                    !.order_by = PyStr(S_rating), !.order_dir = PyStr(S_DESC)] :
        y \in {PyNone, PyInt(2)}, yr \in YearRanges}

\* the call for the page that follows the page of kw
NextPageOf(kw) ==
    [kw EXCEPT !.offset = PyInt(Max(0, kw.offset.n) + Max(1, kw.limit.n))]

QueryInit ==
    /\ kwargs1 \in FilterQueries
    /\ kwargs2 = NextPageOf(kwargs1)
    /\ nvary = 0
    /\ ToolIdle
    /\ client = "sql"
    /\ cache = <<>>
    /\ cache_size = 2
    /\ db_file \in {[mtime |-> 1, rows |-> rows] : rows \in {CatalogR, CatalogY}}
    /\ index_file = 0
    /\ meta_file = 0
    /\ db_mtime = db_file.mtime
    /\ index_mtime = index_file
    /\ meta_mtime = meta_file
    /\ last = NoLast
    /\ recency = <<>>
    /\ AgentIdle
    /\ SessIdle

\* query_movies(**kwargs1)
FirstPage == last.op = "init" /\ QueryMovies(kwargs1, TRUE)

\* then query_movies for the page after it
NextPage == last.op = "query" /\ last.kw = kwargs1 /\ QueryMovies(kwargs2, TRUE)

QueryNext == FirstPage \/ NextPage

SpecQuery == QueryInit /\ [][QueryNext]_vars

\* the values requested of a multi-valued filter
Requested(v) == Range(normalize_list(v))

\* the ids of every row the query selects, in ranked order
Ranked(kw) ==
    LET q == BoundQuery(kw)
        all == OrderBy(q, Filter(q, db_file.rows))
    IN [i \in 1..Len(all) |-> all[i].id]

FirstN(seq, n) == SubSeq(seq, 1, Min(Len(seq), n))

\* the row passes every filter that is given, each taken by its own name
Qualifies(kw, m) ==
    /\ BaseWhere(EffectiveQuery(kw), m)
    /\ Requested(kw.genre) # {} => \E v \in Requested(kw.genre) : HasValue(m.genres, v)
    /\ Requested(kw.cast) # {} => \E v \in Requested(kw.cast) : HasValue(m.cast, v)

NoFilter(kw) ==
    /\ Requested(kw.genre) = {} /\ Requested(kw.cast) = {}
    /\ kw.year.t = "none" /\ kw.year_min.t = "none" /\ kw.year_max.t = "none"
    /\ ~Truthy(kw.director) /\ ~Truthy(kw.title)

\* C21: a row is returned only if, for each of genre and cast that is given,
\* some element of the row's own list matches some requested value; a filter
\* that is not given excludes no row, and a call without any filter returns
\* the first rows of the whole table in the default order.
MultiValuedFilter ==
    (last.op = "query" /\ last.store) =>
        /\ \A i \in 1..Len(last.ret) :
              LET m == RowOf(last.ret[i])
              IN /\ Requested(last.kw.genre) # {} =>
                        \E v \in Requested(last.kw.genre) : HasValue(m.genres, v)
                 /\ Requested(last.kw.cast) # {} =>
                        \E v \in Requested(last.kw.cast) : HasValue(m.cast, v)
        /\ (Requested(last.kw.genre) = {} \/ Requested(last.kw.cast) = {}) =>
              \A m \in Range(db_file.rows) :
                  Qualifies(last.kw, m) => m.id \in Range(Ranked(last.kw))
        /\ NoFilter(last.kw) =>
              /\ Range(Ranked(last.kw)) = {m.id : m \in Range(db_file.rows)}
              /\ Len(last.ret) = Min(Len(db_file.rows) - Max(0, last.kw.offset.n),
                                     Max(1, last.kw.limit.n))

\* C22: with year given every returned row has exactly that year and year_min
\* and year_max have no effect on the answer; with year absent every returned
\* row's year lies within [year_min, year_max], each bound applying when given.
YearFilter ==
    (last.op = "query" /\ last.store) =>
        /\ \A i \in 1..Len(last.ret) :
              LET m == RowOf(last.ret[i])
              IN IF last.kw.year.t # "none"
                 THEN m.year = last.kw.year.n
                 ELSE /\ last.kw.year_min.t # "none" => m.year >= last.kw.year_min.n
                      /\ last.kw.year_max.t # "none" => m.year <= last.kw.year_max.n
        /\ last.kw.year.t # "none" =>
              last.ret = ExecuteQuery(BoundQuery([last.kw EXCEPT !.year_min = PyNone,
                                                                 !.year_max = PyNone]),
                                      db_file.rows)

\* C23: limit and offset cut the page out of the filtered and ranked rows: a
\* call with limit >= 1 returns at most limit rows, and the page at offset 0
\* followed by the page at offset = limit is the first 2 * limit rows of the
\* ranked sequence, no row being on both pages.
Pagination ==
    (last.op = "query" /\ last.store /\ last.kw.limit.n >= 1) =>
        LET limit == last.kw.limit.n
            offset == Max(0, last.kw.offset.n)
            ranked == Ranked(last.kw)
        IN /\ Len(last.ret) <= limit
           /\ last.ret = SubSeq(ranked, offset + 1, Min(Len(ranked), offset + limit))
           /\ (last.kw = kwargs2 /\ kwargs1.offset.n = 0) =>
                 /\ sql_make_cache_key(kwargs1) \in Keys(cache)
                 /\ LET first == Entry(cache, sql_make_cache_key(kwargs1)).value
                    IN /\ first \o last.ret = FirstN(Ranked(kwargs1), 2 * limit)
                       /\ Range(first) \cap Range(last.ret) = {}

\* two full pages of a filtered query have been fetched, the second from offset = limit
PaginationWitness ==
    /\ last.op = "query" /\ last.store /\ last.kw = kwargs2
    /\ kwargs1.offset.n = 0 /\ kwargs1.limit.n = 2 /\ last.kw.offset.n = 2
    /\ Requested(last.kw.genre) # {}
    /\ Len(last.ret) >= 1
    /\ Len(Entry(cache, sql_make_cache_key(kwargs1)).value) = 2
    /\ Len(Ranked(last.kw)) >= 3

\* C24: an order_by outside the allow-list is not rejected; the query runs and
\* its answer is the one ordered by the default field, rating, as if order_by
\* had been left out.
UnknownOrderBy ==
    (last.op = "query" /\ last.store /\ last.kw.order_by.s \notin ORDERABLE_FIELDS) =>
        last.ret = ExecuteQuery(BoundQuery([last.kw EXCEPT !.order_by = PyStr(S_rating)]),
                                db_file.rows)

(***************************************************************************)
(* The SQL tool: SQLQueryTool.execute over SQLQueryHandler.execute_query    *)
(* over validate_sql_params and SQLiteClient.query_movies.                  *)
(***************************************************************************)
\* bool(x) of an argument
Bool(v) ==
    CASE v.t = "none" -> FALSE
      [] v.t = "int" -> v.n # 0
      [] v.t = "str" -> v.s # <<>>
      [] OTHER -> v.l # <<>>

\* validate_sql_params: TRUE when it returns True, FALSE when it raises ValueError
validate_sql_params(kw) ==
    /\ ~(Bool(kw.year_min) /\ Bool(kw.year_max) /\ kw.year_min.n > kw.year_max.n)
    /\ ~(Bool(kw.year) /\ kw.year.t # "int")
    /\ ~(Bool(kw.year_min) /\ kw.year_min.t # "int")
    /\ ~(Bool(kw.year_max) /\ kw.year_max.t # "int")
    /\ ~(Bool(kw.genre) /\ kw.genre.t # "str")
    /\ ~(Bool(kw.cast) /\ kw.cast.t # "str")
    /\ ~(Bool(kw.director) /\ kw.director.t # "str")
    /\ ~(Bool(kw.title) /\ kw.title.t # "str")
    /\ ~(kw.offset.n < 0)
    /\ kw.order_by.s \in ORDERABLE_FIELDS
    /\ kw.order_dir.s \in {S_ASC, S_DESC}

\* the years the tool is called with
MaxYear == 2
Years == (0 - MaxYear)..MaxYear
YearValues == {PyNone} \cup {PyInt(y) : y \in Years}

\* the arguments the tool is called with
ToolArguments ==
    {[BaseKw EXCEPT !.genre = g, !.year_min = lo, !.year_max = hi,
                    !.limit = PyInt(5), !.offset = PyInt(off), !.order_by = ob,
                    !.order_dir = PyStr(S_DESC)] :
        g \in {PyNone, PyStr(<<"a">>), PyStr(<<"x">>)},
        lo \in YearValues, hi \in YearValues,
        off \in {0, -1},
        ob \in {PyStr(S_rating), PyStr(<<"x">>)}}

HandlerInit ==
    /\ kwargs1 \in ToolArguments
    /\ kwargs2 = kwargs1
    /\ nvary = 0
    /\ ToolIdle
    /\ client = "sql"
    /\ cache = <<>>
    /\ cache_size = 2
    /\ db_file = [mtime |-> 1, rows |-> CatalogR]
    /\ index_file = 0
    /\ meta_file = 0
    /\ db_mtime = db_file.mtime
    /\ index_mtime = index_file
    /\ meta_mtime = meta_file
    /\ last = NoLast
    /\ recency = <<>>
    /\ AgentIdle
    /\ SessIdle

\* await SQLQueryHandler.execute_query(**kwargs1): the validation raises, or
\* query_movies (a plain function) runs, raises or returns a list, and
\* "await" of that list raises TypeError
HandlerExecuteQuery == \E ok \in BOOLEAN :
    /\ IF ~validate_sql_params(kwargs1)
       THEN /\ ok
            /\ result' = [NoResult EXCEPT !.op = "execute_query", !.raised = "ValueError"]
            /\ UNCHANGED cacheVars
       ELSE /\ query_movies(kwargs1, ok)
            /\ result' = [NoResult EXCEPT !.op = "execute_query", !.reached = TRUE,
                                          !.raised = IF last'.op = "query" THEN "TypeError"
                                                     ELSE "Exception"]
    /\ UNCHANGED <<kwargs1, kwargs2, nvary, callers, agentVars, sessVars>>

\* SQLQueryTool.execute(kwargs1): execute_query(...) is called without await, so
\* its body never runs; result['count'] on the coroutine object raises
\* TypeError, which the except clause turns into the failure answer
ToolExecute ==
    /\ result' = [NoResult EXCEPT !.op = "execute", !.error = "TypeError"]
    /\ UNCHANGED <<kwargs1, kwargs2, nvary, callers, cacheVars, agentVars, sessVars>>

HandlerNext == HandlerExecuteQuery \/ ToolExecute

SpecHandler == HandlerInit /\ [][HandlerNext]_vars

\* C25: for every pair of integers year_min > year_max, zero and negative ones
\* included, validate_sql_params raises and execute_query does not get to
\* query_movies.
YearRangeRejected ==
    (/\ result.op = "execute_query"
     /\ kwargs1.year_min.t = "int" /\ kwargs1.year_max.t = "int"
     /\ kwargs1.year_min.n > kwargs1.year_max.n) =>
        /\ result.raised = "ValueError"
        /\ ~result.reached
        /\ last = NoLast /\ cache = <<>>

\* C26: through SQLQueryTool.execute a valid query that matches no row gives
\* success with count 0 and an empty list, and one that matches rows gives
\* success with count the number of rows returned.
ToolAnswer ==
    (result.op = "execute" /\ validate_sql_params(kwargs1)) =>
        /\ result.success
        /\ result.movies = ExecuteQuery(BoundQuery(kwargs1), db_file.rows)
        /\ result.count = Len(result.movies)

(***************************************************************************)
(* MovieAgent: answer and ahistory under the per-thread locks.  A          *)
(* coroutine runs without interruption from one await that suspends to the *)
(* next; each action below is one such stretch.                            *)
(***************************************************************************)
Threads == {"T1", "T2"}
AgentOps == {"answer", "ahistory"}

NewLock == [locked |-> FALSE, waiters |-> <<>>, woken |-> FALSE]

\* a lookup that hands out a new lock on every call
thread_locks_getitem_fresh(m, n, T) ==
    [lock |-> n + 1,
     map |-> [x \in (DOMAIN m) \cup {T} |-> IF x = T THEN n + 1 ELSE m[x]],
     created |-> TRUE]

\* a lookup that hands every thread id the same lock
thread_locks_getitem_shared(m, n, T) ==
    [lock |-> 1,
     map |-> [x \in (DOMAIN m) \cup {T} |-> 1],
     created |-> n = 0]

\* self._thread_locks[thread_id] on a defaultdict(asyncio.Lock); n locks exist
thread_locks_getitem(m, n, T) ==
    IF T \in DOMAIN m
    THEN [lock |-> m[T], map |-> m, created |-> FALSE]
    ELSE [lock |-> n + 1,
          map |-> [x \in (DOMAIN m) \cup {T} |-> IF x = T THEN n + 1 ELSE m[x]],
          created |-> TRUE]

\* asyncio.Lock.acquire up to its first suspension: taken at once when the
\* lock is free and nobody waits, else the caller queues
lock_acquire(l, t) ==
    IF ~l.locked /\ l.waiters = <<>>
    THEN [lock |-> [l EXCEPT !.locked = TRUE], acquired |-> TRUE]
    ELSE [lock |-> [l EXCEPT !.waiters = Append(@, t)], acquired |-> FALSE]

\* asyncio.Lock.release: unlock and wake the first waiter
lock_release(l) == [l EXCEPT !.locked = FALSE, !.woken = (l.waiters # <<>>)]

\* the woken waiter resumes inside acquire: it leaves the queue and locks
lock_resume(l) == [l EXCEPT !.waiters = Tail(@), !.woken = FALSE, !.locked = TRUE]

\* _initialize_agent, from its start and from each of its two awaits, up to
\* the next await: what to wait for next and the fields assigned on the way
init_after_saver(tl, sv, ag, sc) ==
    [mode |-> "enter", tools |-> tl, saver |-> sv,
     agent |-> IF ag = 0 THEN sv ELSE ag, contexts |-> sc]

init_after_tools(tl, sv, ag, sc) ==
    IF sv = 0
    THEN [mode |-> "open_saver", tools |-> tl, saver |-> sv, agent |-> ag,
          contexts |-> sc]
    ELSE init_after_saver(tl, sv, ag, sc)

init_start(tl, sv, ag, sc) ==
    IF ~tl
    THEN [mode |-> "load_tools", tools |-> tl, saver |-> sv, agent |-> ag,
          contexts |-> sc]
    ELSE init_after_tools(tl, sv, ag, sc)

\* "async with self._thread_locks[thread_id]:" up to the critical section or
\* to the wait for the lock
EnterLock(t, rec) ==
    LET g == thread_locks_getitem(thread_locks, Len(locks), rec.thread)
        ls == IF g.created THEN Append(locks, NewLock) ELSE locks
        a == lock_acquire(ls[g.lock], t)
    IN /\ thread_locks' = g.map
       /\ inserted' = IF g.created
                      THEN [thread |-> rec.thread, lock |-> g.lock,
                            held |-> lock_cleanup_lock.locked
                                     /\ lock_cleanup_lock.holder = t]
                      ELSE inserted
       /\ locks' = [ls EXCEPT ![g.lock] = a.lock]
       /\ tasks' = [tasks EXCEPT ![t] =
                       [rec EXCEPT !.pc = IF a.acquired THEN "cs" ELSE "wait",
                                   !.lock = g.lock]]

\* run coroutine t to its next await, given how far _initialize_agent got
Proceed(t, rec, r) ==
    /\ tools' = r.tools
    /\ saver' = r.saver
    /\ agent' = r.agent
    /\ saver_contexts' = r.contexts
    /\ IF r.mode = "enter"
       THEN EnterLock(t, rec)
       ELSE /\ tasks' = [tasks EXCEPT ![t] = [rec EXCEPT !.pc = r.mode]]
            /\ UNCHANGED <<thread_locks, locks, inserted>>

\* answer(text, T) or ahistory(T) is called and runs to its first suspension
Calling(t, op, T) ==
    LET rec == [NoTask EXCEPT !.op = op, !.thread = T]
        needs_init == IF op = "answer" THEN agent = 0 ELSE saver = 0
        r == IF needs_init
             THEN init_start(tools, saver, agent, saver_contexts)
             ELSE [mode |-> "enter", tools |-> tools, saver |-> saver,
                   agent |-> agent, contexts |-> saver_contexts]
    IN /\ tasks[t].pc = "idle"
       /\ Proceed(t, rec, r)

Call(t, op, T) ==
    Calling(t, op, T) /\ UNCHANGED <<callVars, closeVars, keyVars, cacheVars, sessVars>>

\* _load_mcp_tools returns
LoadedTools(t) ==
    /\ tasks[t].pc = "load_tools"
    /\ Proceed(t, tasks[t], init_after_tools(TRUE, saver, agent, saver_contexts))
    /\ UNCHANGED <<callVars, closeVars, keyVars, cacheVars, sessVars>>

\* saver_context.__aenter__() returns
OpenedSaver(t) ==
    /\ tasks[t].pc = "open_saver"
    /\ Proceed(t, tasks[t],
               init_after_saver(tools, saver_contexts + 1, agent, saver_contexts + 1))
    /\ UNCHANGED <<callVars, closeVars, keyVars, cacheVars, sessVars>>

\* the waiter woken by a release gets the lock
Resume(t) ==
    /\ tasks[t].pc = "wait"
    /\ locks[tasks[t].lock].woken
    /\ Head(locks[tasks[t].lock].waiters) = t
    /\ locks' = [locks EXCEPT ![tasks[t].lock] = lock_resume(@)]
    /\ tasks' = [tasks EXCEPT ![t].pc = "cs"]
    /\ UNCHANGED <<thread_locks, tools, saver, agent, saver_contexts, inserted,
                   callVars, closeVars, keyVars, cacheVars, sessVars>>

\* ainvoke / aget returns or raises: the lock is released, the call ends
Finishing(t) ==
    /\ tasks[t].pc = "cs"
    /\ locks' = [locks EXCEPT ![tasks[t].lock] = lock_release(@)]
    /\ tasks' = [tasks EXCEPT ![t] = NoTask]
    /\ UNCHANGED <<thread_locks, tools, saver, agent, saver_contexts, inserted>>

Finish(t) == Finishing(t) /\ UNCHANGED <<callVars, closeVars, keyVars, cacheVars, sessVars>>

AgentInit == AgentIdle /\ KeyIdle /\ CacheIdle /\ SessIdle

AgentNext ==
    \/ \E t \in Tasks, op \in AgentOps, T \in Threads : Call(t, op, T)
    \/ \E t \in Tasks : LoadedTools(t)
    \/ \E t \in Tasks : OpenedSaver(t)
    \/ \E t \in Tasks : Resume(t)
    \/ \E t \in Tasks : Finish(t)

SpecAgent == AgentInit /\ [][AgentNext]_vars

InCritical(T) == {t \in Tasks : tasks[t].pc = "cs" /\ tasks[t].thread = T}

\* C1: for every thread id, at no instant are two critical sections for it
\* (the agent invocation inside answer, the checkpoint read inside ahistory)
\* executing at once, whatever the interleaving of answer and ahistory calls.
MutualExclusion == \A T \in Threads : Cardinality(InCritical(T)) <= 1

\* an answer is inside its critical section while an ahistory for the same
\* thread waits for the lock and another thread's call is in its own
MutualExclusionWitness ==
    \E t1, t2, t3 \in Tasks :
        /\ tasks[t1].pc = "cs" /\ tasks[t1].op = "answer"
        /\ tasks[t2].pc = "wait" /\ tasks[t2].op = "ahistory"
        /\ tasks[t2].thread = tasks[t1].thread
        /\ tasks[t3].pc = "cs" /\ tasks[t3].thread # tasks[t1].thread


(***************************************************************************)
(* The calls of the MovieAgent as their callers see them: the order in     *)
(* which they were issued and how each of them ended.                      *)
(***************************************************************************)
\* what ainvoke / aget can raise
Errors == {"E1", "E2"}
Outcomes == {"none"} \cup Errors

\* an exit that releases the lock only when the body returned
async_with_exit_returned_only(l, exc) ==
    [lock |-> IF exc = "none" THEN lock_release(l) ELSE l, raised |-> exc]

\* the end of "async with lock:": asyncio.Lock.__aexit__ releases the lock and
\* returns None, so what the body raised is raised again; answer and ahistory
\* catch nothing
async_with_exit(l, exc) == [lock |-> lock_release(l), raised |-> exc]

\* the coroutines whose calls are observed
Callers == 1..MaxCalls

\* answer(text, T) / ahistory(T) is issued and runs to its first suspension
Issue(t, op, T) ==
    /\ Calling(t, op, T)
    /\ issued' = Append(issued, t)
    /\ UNCHANGED <<ended, closeVars, keyVars, cacheVars, sessVars>>

\* ainvoke / aget returns (exc = "none") or raises exc: the "async with"
\* block is left and the call ends
End(t, exc) ==
    /\ tasks[t].pc = "cs"
    /\ LET x == async_with_exit(locks[tasks[t].lock], exc)
       IN /\ locks' = [locks EXCEPT ![tasks[t].lock] = x.lock]
          /\ ended' = [thread |-> tasks[t].thread, lock |-> tasks[t].lock,
                       raised |-> exc, got |-> x.raised,
                       clean |-> ended.clean /\ exc = "none"]
    /\ tasks' = [tasks EXCEPT ![t] = NoTask]
    /\ issued' = SelectSeq(issued, LAMBDA u : u # t)
    /\ UNCHANGED <<thread_locks, tools, saver, agent, saver_contexts, inserted,
                   closeVars, keyVars, cacheVars, sessVars>>

CallsNext ==
    \/ \E t \in Callers, op \in AgentOps, T \in Threads : Issue(t, op, T)
    \/ \E t \in Tasks : LoadedTools(t)
    \/ \E t \in Tasks : OpenedSaver(t)
    \/ \E t \in Tasks : Resume(t)
    \/ \E t \in Tasks, exc \in Outcomes : End(t, exc)

SpecAgentCalls == AgentInit /\ [][CallsNext]_vars

\* the call of coroutine t ends in this step
Ends(t) == tasks[t].pc = "cs" /\ tasks'[t].pc = "idle"
\* coroutine t reaches "async with self._thread_locks[thread_id]" in this step
ReachesLock(t) == tasks[t].pc \notin {"cs", "wait"} /\ tasks'[t].pc \in {"cs", "wait"}
\* the coroutines holding or queueing for the lock of thread id T
AtLock(T) == {u \in Tasks : tasks[u].pc \in {"cs", "wait"} /\ tasks[u].thread = T}

\* C17: when the agent invocation inside answer or the checkpoint read inside
\* ahistory raises, the lock of that thread id is released and the caller gets
\* the very exception that was raised; the lock can then be taken again: by a
\* new call at once when nobody queues, else by the first waiter, which has
\* been woken.  No lock is ever locked without a coroutine inside its
\* critical section.
NoLockLeftLocked ==
    \A i \in 1..Len(locks) :
        locks[i].locked => \E t \in Tasks : tasks[t].pc = "cs" /\ tasks[t].lock = i

LockReleasedOnFailureStep ==
    \A t \in Tasks :
        (Ends(t) /\ ended'.raised \in Errors) =>
            LET l == locks'[tasks[t].lock]
            IN /\ ended'.got = ended'.raised
               /\ ended'.thread = tasks[t].thread
               /\ ~l.locked
               /\ IF l.waiters = <<>>
                  THEN \A u \in Tasks : lock_acquire(l, u).acquired
                  ELSE l.woken /\ tasks'[Head(l.waiters)].pc = "wait"

LockReleasedOnFailure == []NoLockLeftLocked /\ [][LockReleasedOnFailureStep]_vars

\* the call that ended last raised, and a call on the same thread id is now
\* inside its critical section under the same lock
LockReleasedOnFailureWitness ==
    /\ ended.raised \in Errors
    /\ ended.got = ended.raised
    /\ \E t \in Tasks :
          /\ tasks[t].pc = "cs"
          /\ tasks[t].thread = ended.thread
          /\ tasks[t].lock = ended.lock

\* C18: calls on different thread ids never wait for each other: a call that
\* reaches its lock while no call on its own thread id holds or queues for
\* that lock enters its critical section in that very step, whatever calls on
\* other thread ids hold, a first access to its thread id included; and a
\* call that waits shares its lock only with calls on its own thread id.
WaitsOnOwnThread ==
    \A t, u \in Tasks :
        (/\ tasks[t].pc = "wait"
         /\ tasks[u].pc \in {"cs", "wait"}
         /\ tasks[u].lock = tasks[t].lock) => tasks[u].thread = tasks[t].thread

IndependentThreadsStep ==
    \A t \in Tasks :
        (ReachesLock(t) /\ AtLock(tasks'[t].thread) = {}) => tasks'[t].pc = "cs"

IndependentThreads == []WaitsOnOwnThread /\ [][IndependentThreadsStep]_vars

\* the only two calls made so far are on different thread ids, each the
\* first access to its thread id, and both are inside their critical sections
IndependentThreadsWitness ==
    /\ ended = NoEnded
    /\ Len(issued) = 2
    /\ Len(locks) = 2
    /\ tasks[issued[1]].pc = "cs"
    /\ tasks[issued[2]].pc = "cs"
    /\ tasks[issued[1]].thread # tasks[issued[2]].thread

\* C19: as long as no operation has failed, the critical sections on one
\* thread id complete in the order their calls were issued: the call that
\* ends is the earliest issued of the calls in progress on its thread id.
FifoStep ==
    \A t \in Tasks :
        (Ends(t) /\ ended'.clean) =>
            Head(SelectSeq(issued, LAMBDA u : tasks[u].thread = tasks[t].thread)) = t

FifoCompletion == [][FifoStep]_vars


(***************************************************************************)
(* close() beside the calls of answer and ahistory.                         *)
(***************************************************************************)
MaxCloses == 1      \* calls of close()

\* "async with self._lock_cleanup_lock": the lock taken by who, and given back
cleanup_acquire(l, who) == [l EXCEPT !.locked = TRUE, !.holder = who]
cleanup_release(l) == [l EXCEPT !.locked = FALSE, !.holder = 0]

\* close(): "async with self._lock_cleanup_lock: self._thread_locks.clear()",
\* which runs without a suspension as nobody else takes that lock
ClearLocks ==
    LET held == cleanup_acquire(lock_cleanup_lock, "close")
    IN /\ ~lock_cleanup_lock.locked
       /\ thread_locks' = <<>>
       /\ lock_cleanup_lock' = cleanup_release(held)

\* close() is called: with a saver it waits for the saver context to exit
CloseStart ==
    /\ closer.pc = "idle"
    /\ closer.n < MaxCloses
    /\ IF saver # 0
       THEN /\ closer' = [pc |-> "aexit", n |-> closer.n + 1]
            /\ UNCHANGED <<thread_locks, lock_cleanup_lock>>
       ELSE /\ closer' = [pc |-> "idle", n |-> closer.n + 1]
            /\ ClearLocks
    /\ UNCHANGED <<tasks, locks, tools, saver, agent, saver_contexts, inserted,
                   callVars, keyVars, cacheVars, sessVars>>

\* _saver_context.__aexit__ returns: the saver is dropped, the locks are cleared
CloseExited ==
    /\ closer.pc = "aexit"
    /\ saver' = 0
    /\ closer' = [closer EXCEPT !.pc = "idle"]
    /\ ClearLocks
    /\ UNCHANGED <<tasks, locks, tools, agent, saver_contexts, inserted,
                   callVars, keyVars, cacheVars, sessVars>>

CloseNext ==
    \/ \E t \in Callers, op \in AgentOps, T \in Threads : Call(t, op, T)
    \/ \E t \in Tasks : LoadedTools(t)
    \/ \E t \in Tasks : OpenedSaver(t)
    \/ \E t \in Tasks : Resume(t)
    \/ \E t \in Tasks : Finish(t)
    \/ CloseStart
    \/ CloseExited

SpecAgentClose == AgentInit /\ [][CloseNext]_vars

\* C30: every lock put into the thread-id map is put there by a coroutine
\* holding _lock_cleanup_lock, and no coroutine holds _lock_cleanup_lock while
\* it takes or waits for a per-thread lock.
InsertionUnderCleanupLock ==
    /\ inserted.lock # 0 => inserted.held
    /\ \A t \in Tasks :
          tasks[t].pc \in {"cs", "wait"} =>
              ~(lock_cleanup_lock.locked /\ lock_cleanup_lock.holder = t)

\* close() runs its "self._thread_locks.clear()" in this step
ClearsLocks ==
    closer'.pc = "idle" /\ (closer'.n > closer.n \/ closer.pc = "aexit")

\* the locks the map holds
LocksOf(m) == {m[T] : T \in DOMAIN m}

LockMapStep ==
    /\ \A t \in Tasks :
          ReachesLock(t) =>
             LET T == tasks'[t].thread
             IN /\ T \in DOMAIN thread_locks'
                /\ tasks'[t].lock = thread_locks'[T]
                /\ T \in DOMAIN thread_locks => thread_locks' = thread_locks
                /\ T \notin DOMAIN thread_locks =>
                      /\ DOMAIN thread_locks' = DOMAIN thread_locks \cup {T}
                      /\ thread_locks'[T] \notin LocksOf(thread_locks)
                      /\ thread_locks'[T] = Len(locks) + 1
                      /\ Len(locks') = Len(locks) + 1
                      /\ \A U \in DOMAIN thread_locks :
                            thread_locks'[U] = thread_locks[U]
    /\ (\A t \in Tasks : ~ReachesLock(t)) /\ ~ClearsLocks =>
          thread_locks' = thread_locks /\ Len(locks') = Len(locks)
    /\ ~ClearsLocks =>
          /\ DOMAIN thread_locks \subseteq DOMAIN thread_locks'
          /\ Cardinality(DOMAIN thread_locks') >= Cardinality(DOMAIN thread_locks)
    /\ closer'.n = 0 =>
          /\ Cardinality(DOMAIN thread_locks') = Len(locks')
          /\ Cardinality(LocksOf(thread_locks')) = Len(locks')
          /\ \A t \in Tasks :
                tasks'[t].pc \in {"cs", "wait"} =>
                   /\ tasks'[t].thread \in DOMAIN thread_locks'
                   /\ tasks'[t].lock = thread_locks'[tasks'[t].thread]

\* C33: the lock map gains the entry of a thread id exactly in the first
\* answer or ahistory call that reaches the lock of that id, every later call
\* on the id uses that same lock, and only close() removes entries: until
\* close() is called the map has one entry, with a lock of its own, per
\* thread id accessed, and the number of entries never decreases.
LockMap == [][LockMapStep]_vars

\* before any close(), two thread ids have been accessed and two calls on
\* one of them share its lock, one inside the critical section, one waiting
LockMapWitness ==
    /\ closer.n = 0
    /\ DOMAIN thread_locks = Threads
    /\ \E t1, t2 \in Tasks :
          /\ tasks[t1].pc = "cs" /\ tasks[t2].pc = "wait"
          /\ tasks[t1].thread = tasks[t2].thread
          /\ tasks[t1].lock = tasks[t2].lock
          /\ tasks[t1].lock = thread_locks[tasks[t1].thread]

\* the coroutines inside _initialize_agent at the await of pc
Awaiting(pc) == {t \in Tasks : tasks[t].pc = pc}

\* C36: under any interleaving of concurrent first calls of answer and
\* ahistory on a fresh MovieAgent the agent is initialized once: the tools
\* are loaded by at most one call, the saver context is entered by at most
\* one call, so that no entered saver is overwritten and left open.
InitializedOnce ==
    /\ Cardinality(Awaiting("load_tools")) <= 1
    /\ Cardinality(Awaiting("open_saver")) <= 1
    /\ saver_contexts <= 1

ExclusionAcrossCloseStep ==
    \A t \in Tasks :
       (/\ closer.n > 0
        /\ tasks[t].pc # "cs"
        /\ tasks'[t].pc = "cs") =>
          InCritical(tasks'[t].thread) = {}

\* C35: mutual exclusion per thread id survives teardown: once close() has
\* been called, a call of answer or ahistory for a thread id enters its
\* critical section only when no critical section for that id, begun before
\* or during close(), is still in progress.
ExclusionAcrossClose == [][ExclusionAcrossCloseStep]_vars

(***************************************************************************)
(* The session layer of the API: validate_chat_pair, archive_chat,         *)
(* unarchive_chat and the creation of a chat, over the chats table and the *)
(* chat-pair keys in Redis.  A request runs without interruption from one  *)
(* await to the next; each action below is one such stretch.               *)
(***************************************************************************)
S_active == "active"
S_archived == "archived"

Ok(detail) == [code |-> 200, detail |-> detail]
\* 404, "Chat not found or unauthorized: {chat_id}"
NotFound(chat_id) == [code |-> 404, detail |-> chat_id]

\* "chat_pair:{user_id}:{chat_id}"
make_chat_pair_key(user_id, chat_id) == <<user_id, chat_id>>

\* a cache write that only drops the entry
cache_drop_chat_pair(rd, up, user_id, chat_id, st) ==
    IF up
    THEN [k \in (DOMAIN rd) \ {make_chat_pair_key(user_id, chat_id)} |-> rd[k]]
    ELSE rd

\* a lookup of the chat by its id alone
get_chat_any_owner(ch, chat_id, user_id) ==
    IF chat_id \in DOMAIN ch
    THEN [found |-> TRUE, status |-> ch[chat_id].status]
    ELSE [found |-> FALSE, status |-> "none"]

\* an UPDATE ... WHERE chat_id = ? alone
update_chat_status_any_owner(ch, chat_id, user_id, st) ==
    IF chat_id \in DOMAIN ch
    THEN [chats |-> [ch EXCEPT ![chat_id].status = st], ok |-> TRUE]
    ELSE [chats |-> ch, ok |-> FALSE]

\* cache_get_chat_pair: the status, or "none" on a miss or a RedisError
cache_get_chat_pair(rd, up, user_id, chat_id) ==
    IF up /\ make_chat_pair_key(user_id, chat_id) \in DOMAIN rd
    THEN rd[make_chat_pair_key(user_id, chat_id)]
    ELSE "none"

\* cache_set_chat_pair: SETEX with the chat-pair TTL; a RedisError is swallowed
cache_set_chat_pair(rd, up, user_id, chat_id, st) ==
    IF up
    THEN [k \in (DOMAIN rd) \cup {make_chat_pair_key(user_id, chat_id)} |->
             IF k = make_chat_pair_key(user_id, chat_id) THEN st ELSE rd[k]]
    ELSE rd

\* get_chat: SELECT ... WHERE chat_id = ? AND user_id = ?
get_chat(ch, chat_id, user_id) ==
    IF chat_id \in DOMAIN ch /\ ch[chat_id].user_id = user_id
    THEN [found |-> TRUE, status |-> ch[chat_id].status]
    ELSE [found |-> FALSE, status |-> "none"]

\* an UPDATE whose rowcount leaves out the rows that already have the status
update_chat_status_changed_rows(ch, chat_id, user_id, st) ==
    IF chat_id \in DOMAIN ch /\ ch[chat_id].user_id = user_id
       /\ ch[chat_id].status # st
    THEN [chats |-> [ch EXCEPT ![chat_id].status = st], ok |-> TRUE]
    ELSE [chats |-> ch, ok |-> FALSE]

\* update_chat_status: UPDATE ... WHERE chat_id = ? AND user_id = ?; rowcount > 0
update_chat_status(ch, chat_id, user_id, st) ==
    IF chat_id \in DOMAIN ch /\ ch[chat_id].user_id = user_id
    THEN [chats |-> [ch EXCEPT ![chat_id].status = st], ok |-> TRUE]
    ELSE [chats |-> ch, ok |-> FALSE]

\* an INSERT that leaves the new chat archived
create_chat_archived(ch, chat_id, user_id) ==
    [c \in (DOMAIN ch) \cup {chat_id} |->
        IF c = chat_id THEN [user_id |-> user_id, status |-> S_archived] ELSE ch[c]]

\* create_chat: INSERT with a new uuid4 as chat_id and status 'active'
create_chat(ch, chat_id, user_id) ==
    [c \in (DOMAIN ch) \cup {chat_id} |->
        IF c = chat_id THEN [user_id |-> user_id, status |-> S_active] ELSE ch[c]]

StatusChanges == {"archive", "unarchive"}
NewStatus(kind) == IF kind = "archive" THEN S_archived ELSE S_active
Owner(ch, chat_id) == IF chat_id \in DOMAIN ch THEN ch[chat_id].user_id ELSE "none"
PairOf(q) == <<q.user, q.chat>>
AllIdle == \A r \in Reqs : reqs[r].pc = "idle"

\* the chat ids a client can name: a chat_id the API has handed out (a uuid4
\* is not guessed before the response that carries it), or one that no chat
\* has and none will get
NoSuchChat == "c0"
Known(c) ==
    \/ c = NoSuchChat
    \/ /\ c \in DOMAIN chats
       /\ \A x \in Reqs : reqs[x].chat = c =>
              ~(reqs[x].kind = "create" \/ reqs[x].pc = "n_set" \/ reqs[x].is_new_chat)

\* the expectations of the validations in flight for pair p are void
Void(rq, p) ==
    [x \in Reqs |-> IF rq[x].kind = "validate" /\ PairOf(rq[x]) = p
                    THEN [rq[x] EXCEPT !.expect = "none"] ELSE rq[x]]

\* request r sends its response
Complete(r, q, out, src) ==
    /\ reqs' = [reqs EXCEPT ![r] = NoReq]
    /\ resp' = [kind |-> q.kind, user |-> q.user, chat |-> q.chat, out |-> out,
                src |-> src, wrote |-> q.wrote, owner |-> Owner(chats', q.chat),
                expect |-> q.expect]

\* a validate_chat_pair call, or a POST /chat/archive or /chat/unarchive, arrives
Start(r, kind, u, c) ==
    /\ reqs[r].pc = "idle"
    /\ Known(c)
    /\ reqs' = [Void(reqs, IF kind \in StatusChanges THEN <<u, c>> ELSE <<>>)
                   EXCEPT ![r] = [NoReq EXCEPT !.pc = "v_get", !.kind = kind,
                                               !.user = u, !.chat = c,
                                               !.expect = IF kind = "validate"
                                                          THEN fresh[<<u, c>>]
                                                          ELSE "none"]]
    /\ fresh' = IF kind \in StatusChanges
                THEN [fresh EXCEPT ![<<u, c>>] = "none"] ELSE fresh
    /\ UNCHANGED <<chats, redis, redis_up, resp>>

\* POST /chat with a user_id and no chat_id arrives; the user is known
StartCreate(r, u) ==
    /\ reqs[r].pc = "idle"
    /\ ChatIds \ DOMAIN chats # {}
    /\ reqs' = [reqs EXCEPT ![r] = [NoReq EXCEPT !.pc = "create", !.kind = "create",
                                                 !.user = u]]
    /\ UNCHANGED <<chats, redis, redis_up, resp, fresh>>

\* validate_chat_pair: the cache read
VGet(r) ==
    LET q == reqs[r]
        cached_status == cache_get_chat_pair(redis, redis_up, q.user, q.chat)
    IN /\ q.pc = "v_get"
       /\ UNCHANGED <<chats, redis, redis_up, fresh>>
       /\ IF cached_status # "none"
          THEN IF q.kind = "validate"
               THEN Complete(r, q, Ok(cached_status), "cache")
               ELSE reqs' = [reqs EXCEPT ![r].pc = "upd"] /\ UNCHANGED resp
          ELSE reqs' = [reqs EXCEPT ![r].pc = "v_db"] /\ UNCHANGED resp

\* validate_chat_pair: the read of the chats table after a miss
VDb(r) ==
    LET q == reqs[r]
        chat == get_chat(chats, q.chat, q.user)
    IN /\ q.pc = "v_db"
       /\ UNCHANGED <<chats, redis, redis_up, fresh>>
       /\ IF ~chat.found
          THEN Complete(r, q, NotFound(q.chat), "db")
          ELSE /\ reqs' = [reqs EXCEPT ![r].pc = "v_set", ![r].read = chat.status]
               /\ UNCHANGED resp

\* validate_chat_pair: the cache write of the status read
VSet(r) ==
    LET q == [reqs[r] EXCEPT !.wrote = TRUE]
    IN /\ q.pc = "v_set"
       /\ redis' = cache_set_chat_pair(redis, redis_up, q.user, q.chat, q.read)
       /\ UNCHANGED <<chats, redis_up, fresh>>
       /\ IF q.kind = "validate"
          THEN Complete(r, q, Ok(q.read), "db")
          ELSE reqs' = [reqs EXCEPT ![r] = [q EXCEPT !.pc = "upd"]] /\ UNCHANGED resp

\* archive_chat / unarchive_chat: update_chat_status
Upd(r) ==
    LET q == reqs[r]
        res == update_chat_status(chats, q.chat, q.user, NewStatus(q.kind))
    IN /\ q.pc = "upd"
       /\ chats' = res.chats
       /\ UNCHANGED <<redis, redis_up, fresh>>
       /\ IF ~res.ok
          THEN Complete(r, q, NotFound(q.chat), "update")
          ELSE reqs' = [reqs EXCEPT ![r].pc = "c_set"] /\ UNCHANGED resp

\* archive_chat / unarchive_chat: the cache write of the new status
CSet(r) ==
    LET q == [reqs[r] EXCEPT !.wrote = TRUE]
        others == {x \in Reqs \ {r} : reqs[x].kind \in StatusChanges
                                      /\ PairOf(reqs[x]) = PairOf(q)}
    IN /\ q.pc = "c_set"
       /\ redis' = cache_set_chat_pair(redis, redis_up, q.user, q.chat,
                                       NewStatus(q.kind))
       /\ fresh' = [fresh EXCEPT ![PairOf(q)] =
                       IF redis_up /\ others = {} THEN NewStatus(q.kind) ELSE "none"]
       /\ UNCHANGED <<chats, redis_up>>
       /\ Complete(r, q, Ok(NewStatus(q.kind)), "db")

\* chat: create_chat
Create(r) ==
    /\ reqs[r].pc = "create"
    /\ \E c \in ChatIds \ DOMAIN chats :
          /\ chats' = create_chat(chats, c, reqs[r].user)
          /\ reqs' = [reqs EXCEPT ![r].pc = "n_set", ![r].chat = c]
    /\ UNCHANGED <<redis, redis_up, resp, fresh>>

\* chat: the cache write of the new pair
NSet(r) ==
    LET q == [reqs[r] EXCEPT !.wrote = TRUE]
    IN /\ q.pc = "n_set"
       /\ redis' = cache_set_chat_pair(redis, redis_up, q.user, q.chat, S_active)
       /\ UNCHANGED <<chats, redis_up, fresh>>
       /\ Complete(r, q, Ok(q.chat), "db")

\* the TTL of a chat-pair key runs out
Expire(p) ==
    /\ p \in DOMAIN redis
    /\ redis' = [k \in (DOMAIN redis) \ {p} |-> redis[k]]
    /\ fresh' = [fresh EXCEPT ![p] = "none"]
    /\ reqs' = Void(reqs, p)
    /\ UNCHANGED <<chats, redis_up, resp>>

\* the response leaves the server
Deliver ==
    /\ resp # NoResp
    /\ resp' = NoResp
    /\ UNCHANGED <<chats, redis, redis_up, reqs, fresh>>

\* Redis becomes unreachable / reachable again
RedisDown ==
    /\ redis_up
    /\ redis_up' = FALSE
    /\ fresh' = [p \in Pairs |-> "none"]
    /\ reqs' = [x \in Reqs |-> [reqs[x] EXCEPT !.expect = "none"]]
    /\ UNCHANGED <<chats, redis, resp>>

RedisUp ==
    /\ ~redis_up
    /\ redis_up' = TRUE
    /\ UNCHANGED <<chats, redis, reqs, resp, fresh>>


\* the scenario of an owned, active chat archived, validated, unarchived and
\* validated again, one request after the other with Redis reachable and the
\* pair's key not expiring: which request comes next, and the responses so far
Scenario == <<"archive", "validate", "unarchive", "validate">>

Started(r) == reqs[r].pc = "idle" /\ reqs'[r].pc # "idle"
Completed(r) == reqs[r].pc # "idle" /\ reqs'[r].pc = "idle"

ChainStep ==
    IF \E r \in Reqs : Started(r)
    THEN LET q == reqs'[CHOOSE r \in Reqs : Started(r)]
             n == Len(chain.outs)
         IN IF /\ chain.on /\ n >= 1 /\ n < Len(Scenario)
               /\ q.kind = Scenario[n + 1]
               /\ q.user = chain.user /\ q.chat = chain.chat
            THEN chain' = chain
            ELSE IF /\ q.kind = "archive" /\ redis_up
                    /\ get_chat(chats, q.chat, q.user).status = S_active
            THEN chain' = [on |-> TRUE, user |-> q.user, chat |-> q.chat,
                           outs |-> <<>>]
            ELSE chain' = NoChain
    ELSE IF \E r \in Reqs : Completed(r)
    THEN chain' = IF chain.on
                  THEN [chain EXCEPT !.outs =
                           Append(@, [out |-> resp'.out, src |-> resp'.src])]
                  ELSE chain
    ELSE IF redis_up' # redis_up
            \/ <<chain.user, chain.chat>> \in (DOMAIN redis) \ (DOMAIN redis')
    THEN chain' = NoChain
    ELSE chain' = chain

\* the chats table the API starts from: c1 belongs to u1; the cache is empty
InitChats ==
    {[c \in {"c1"} |-> [user_id |-> "u1", status |-> st]] :
        st \in {S_active, S_archived}}

SessInit ==
    /\ chats \in InitChats
    /\ redis = EmptyFn
    /\ redis_up = TRUE
    /\ reqs = [r \in Reqs |-> NoReq]
    /\ resp = NoResp
    /\ fresh = [p \in Pairs |-> "none"]
    /\ chain = NoChain
    /\ TimeIdle
    /\ ApiIdle
    /\ KeyIdle /\ CacheIdle /\ AgentIdle

SessKinds == {"validate", "archive", "unarchive"}
NamedChats == ChatIds \cup {NoSuchChat}

\* requests overlap freely; a response leaves before the next step is taken
Overlapping(A) ==
    resp = NoResp /\ A
    /\ UNCHANGED <<chain, timeVars, apiVars, keyVars, cacheVars, agentVars>>

SessNext ==
    \/ \E r \in Reqs, kind \in SessKinds, u \in Users, c \in NamedChats :
          Overlapping(Start(r, kind, u, c))
    \/ \E r \in Reqs : Overlapping(VGet(r))
    \/ \E r \in Reqs : Overlapping(VDb(r))
    \/ \E r \in Reqs : Overlapping(VSet(r))
    \/ \E r \in Reqs : Overlapping(Upd(r))
    \/ \E r \in Reqs : Overlapping(CSet(r))
    \/ \E p \in Pairs : Overlapping(Expire(p))
    \/ Overlapping(RedisDown)
    \/ Overlapping(RedisUp)
    \/ Deliver /\ UNCHANGED <<chain, timeVars, apiVars, keyVars, cacheVars, agentVars>>

SpecSession == SessInit /\ [][SessNext]_vars

\* requests arrive one after the other
OneByOne(A) ==
    resp = NoResp /\ A /\ ChainStep
    /\ UNCHANGED <<timeVars, apiVars, keyVars, cacheVars, agentVars>>

SeqNext ==
    \/ \E r \in Reqs, kind \in SessKinds, u \in Users, c \in NamedChats :
          OneByOne(AllIdle /\ Start(r, kind, u, c))
    \/ \E r \in Reqs, u \in Users : OneByOne(AllIdle /\ StartCreate(r, u))
    \/ \E r \in Reqs : OneByOne(VGet(r))
    \/ \E r \in Reqs : OneByOne(VDb(r))
    \/ \E r \in Reqs : OneByOne(VSet(r))
    \/ \E r \in Reqs : OneByOne(Upd(r))
    \/ \E r \in Reqs : OneByOne(CSet(r))
    \/ \E r \in Reqs : OneByOne(Create(r))
    \/ \E r \in Reqs : OneByOne(NSet(r))
    \/ \E p \in Pairs : OneByOne(Expire(p))
    \/ OneByOne(RedisDown)
    \/ OneByOne(RedisUp)
    \/ Deliver /\ UNCHANGED <<chain, timeVars, apiVars, keyVars, cacheVars, agentVars>>

SpecSessionSeq == SessInit /\ [][SeqNext]_vars

\* C8: validate_chat_pair for a chat that exists but belongs to another user
\* has the outcome it has for a chat that does not exist: the 404 whose detail
\* names only the chat_id asked for, and no cache write, whatever the cache
\* and the chats table hold.
OwnershipNonLeakage ==
    (resp.kind = "validate" /\ resp.owner # resp.user) =>
        /\ resp.out = NotFound(resp.chat)
        /\ ~resp.wrote

\* a validation of another user's chat was answered while that chat was
\* cached for its owner
OwnershipNonLeakageWitness ==
    /\ resp.kind = "validate"
    /\ resp.owner \notin {resp.user, "none"}
    /\ resp.out = NotFound(resp.chat)
    /\ make_chat_pair_key(resp.owner, resp.chat) \in DOMAIN redis

ReadsSeeCompletedChange ==
    (resp.kind = "validate" /\ resp.expect # "none") => resp.out = Ok(resp.expect)

IdempotentChangeStep ==
    \A r \in Reqs :
       LET q == reqs[r]
           c == q.chat
           p == make_chat_pair_key(q.user, q.chat)
           st == NewStatus(q.kind)
       IN (/\ q.kind \in StatusChanges
           /\ q.pc # "idle"
           /\ Owner(chats, c) = q.user) =>
             /\ chats[c].status = st => chats' = chats
             /\ Completed(r) =>
                   /\ resp'.out = Ok(st)
                   /\ chats'[c].status = st
                   /\ redis_up => p \in DOMAIN redis' /\ redis'[p] = st

ChangesNext ==
    \/ \E r \in Reqs, kind \in StatusChanges, u \in Users, c \in NamedChats :
          Overlapping(Start(r, kind, u, c))
    \/ \E r \in Reqs : Overlapping(VGet(r))
    \/ \E r \in Reqs : Overlapping(VDb(r))
    \/ \E r \in Reqs : Overlapping(VSet(r))
    \/ \E r \in Reqs : Overlapping(Upd(r))
    \/ \E r \in Reqs : Overlapping(CSet(r))
    \/ Deliver /\ UNCHANGED <<chain, timeVars, apiVars, keyVars, cacheVars, agentVars>>

SpecSessionChanges == SessInit /\ [][ChangesNext]_vars

\* C37: when archive_chat and unarchive_chat for the same owned pair run
\* concurrently, once both have completed the cached status of the pair
\* equals the status in the chats table: the two cache writes land in the
\* order of the two updates.
ChangesInOrder ==
    \A c \in DOMAIN chats :
       LET p == make_chat_pair_key(chats[c].user_id, c)
       IN (AllIdle /\ p \in DOMAIN redis) => redis[p] = chats[c].status

(***************************************************************************)
(* The session layer under a clock, for the requests of a chat's owner:    *)
(* every SETEX gives its key the chat-pair TTL, and a key is gone once     *)
(* that time has passed.                                                   *)
(***************************************************************************)
\* CacheTTL.CHAT_PAIR, in seconds
CHAT_PAIR_TTL == 900

\* the clock advances by a second or by a second less than the TTL
ClockSteps == {1, CHAT_PAIR_TTL - 1}
MaxTicks == 3
TicksSoFar == (now \div (CHAT_PAIR_TTL - 1)) + (now % (CHAT_PAIR_TTL - 1))

\* time passes; the keys whose TTL has run out are gone
Tick ==
    \E d \in ClockSteps :
        LET gone == {p \in DOMAIN redis : expires[p] <= now + d}
        IN /\ TicksSoFar < MaxTicks
           /\ now' = now + d
           /\ redis' = [k \in (DOMAIN redis) \ gone |-> redis[k]]
           /\ fresh' = [p \in Pairs |-> IF p \in gone THEN "none" ELSE fresh[p]]
           /\ reqs' = [x \in Reqs |->
                          IF reqs[x].kind = "validate" /\ PairOf(reqs[x]) \in gone
                          THEN [reqs[x] EXCEPT !.expect = "none"] ELSE reqs[x]]
           /\ UNCHANGED <<chats, redis_up, resp, expires, archived_at, started>>

\* what a step of a request does to the times: a SETEX that reached Redis
\* restarts the TTL of its key, an UPDATE that archives a chat dates it
SetexSteps == {"v_set", "c_set", "n_set"}

ClockStep ==
    /\ now' = now
    /\ expires' = [p \in Pairs |->
                      IF \E r \in Reqs : /\ reqs[r].pc \in SetexSteps
                                         /\ reqs'[r].pc # reqs[r].pc
                                         /\ PairOf(reqs[r]) = p
                                         /\ redis_up
                      THEN now + CHAT_PAIR_TTL ELSE expires[p]]
    /\ archived_at' = [c \in DOMAIN archived_at |->
                          IF c \in DOMAIN chats' /\ chats'[c].status = S_archived
                          THEN IF c \in DOMAIN chats /\ chats[c].status = S_archived
                               THEN archived_at[c] ELSE now
                          ELSE -1]
    /\ started' = [r \in Reqs |-> IF Started(r) THEN now ELSE started[r]]

Timed(A) ==
    resp = NoResp /\ A /\ ClockStep
    /\ UNCHANGED <<chain, apiVars, keyVars, cacheVars, agentVars>>

TimedInit ==
    /\ chats \in InitChats
    /\ redis = EmptyFn
    /\ redis_up = TRUE
    /\ reqs = [r \in Reqs |-> NoReq]
    /\ resp = NoResp
    /\ fresh = [p \in Pairs |-> "none"]
    /\ chain = NoChain
    /\ now = 0
    /\ expires = [p \in Pairs |-> 0]
    /\ archived_at = [c \in ChatIds \cup {"c0"} |->
                         IF c \in DOMAIN chats /\ chats[c].status = S_archived
                         THEN 0 ELSE -1]
    /\ started = [r \in Reqs |-> 0]
    /\ ApiIdle
    /\ KeyIdle /\ CacheIdle /\ AgentIdle

TimedNext ==
    \/ \E r \in Reqs, kind \in SessKinds, c \in DOMAIN chats :
          Timed(Start(r, kind, chats[c].user_id, c))
    \/ \E r \in Reqs : Timed(VGet(r))
    \/ \E r \in Reqs : Timed(VDb(r))
    \/ \E r \in Reqs : Timed(VSet(r))
    \/ \E r \in Reqs : Timed(Upd(r))
    \/ \E r \in Reqs : Timed(CSet(r))
    \/ resp = NoResp /\ Tick /\ UNCHANGED <<chain, apiVars, keyVars, cacheVars, agentVars>>
    \/ Deliver /\ UNCHANGED <<chain, timeVars, apiVars, keyVars, cacheVars, agentVars>>

SpecSessionTimed == TimedInit /\ [][TimedNext]_vars

\* C11: once the row of a chat has had status 'archived' since time t, no
\* validate_chat_pair that started later than t plus the chat-pair TTL returns
\* 'active' for it.
BoundedStalenessStep ==
    \A r \in Reqs :
        (/\ Completed(r)
         /\ reqs[r].kind = "validate"
         /\ archived_at[reqs[r].chat] # -1
         /\ started[r] > archived_at[reqs[r].chat] + CHAT_PAIR_TTL)
        => resp'.out # Ok(S_active)

BoundedStaleness == [][BoundedStalenessStep]_vars


(***************************************************************************)
(* The endpoints: POST /chat, POST /chat/history, POST /chat/archive and   *)
(* POST /chat/unarchive, with validate_or_create_user, validate_chat_pair  *)
(* and the call into MovieAgent.  Request r calls the agent as coroutine   *)
(* r, with the chat_id as thread id.                                       *)
(***************************************************************************)
\* a field the request body leaves out (None)
Absent == "none"
\* a user_id that no user has and none will get
NoSuchUser == "u0"
\* the owner column of a row that was deleted from the chats table; its
\* chat_id is not used again
Nobody == "nobody"

\* the not-active condition reported as a 404
NotActive_as_404(chat_status) == [code |-> 404, detail |-> chat_status]

\* 404, "User not found: {user_id}"
UserNotFound(user_id) == [code |-> 404, detail |-> user_id]
\* 400, "Chat is not active: {chat_id} (status: {chat_status})" and
\* 400, "Cannot retrieve history: chat is {chat_status}"
NotActive(chat_status) == [code |-> 400, detail |-> chat_status]
\* 400, "user_id is required when chat_id is provided"
UserIdRequired == [code |-> 400, detail |-> "user_id is required"]
\* 500, "Failed to generate response" / "Failed to retrieve conversation history"
AgentFailed == [code |-> 500, detail |-> "agent failed"]

\* a user-cache read that ignores a RedisError
cache_get_user_through(uc, up, user_id) == user_id \in uc

\* a users table that has every user_id
get_user_any(us, user_id) == TRUE

\* cache_get_user: whether the user key exists; False on a RedisError
cache_get_user(uc, up, user_id) == up /\ user_id \in uc

\* cache_set_user: SETEX of the user key; a RedisError is swallowed
cache_set_user(uc, up, user_id) == IF up THEN uc \cup {user_id} ELSE uc

\* get_user: SELECT ... WHERE user_id = ?
get_user(us, user_id) == user_id \in us

\* the user ids a client can name: one the API has handed out, or NoSuchUser
KnownUser(u) ==
    \/ u = NoSuchUser
    \/ /\ u \in users
       /\ \A x \in Reqs : reqs[x].user = u =>
              ~(reqs[x].pc = "uc_set" \/ reqs[x].is_new_user)

ApiKinds == {"chat", "history"}
AgentOp(kind) == IF kind = "history" THEN "ahistory" ELSE "answer"

\* POST /chat arrives; the handler picks its case
ChatStart(r, u, c) ==
    /\ reqs[r].pc = "idle"
    /\ u = Absent \/ KnownUser(u)
    /\ c = Absent \/ Known(c)
    /\ reqs' = [reqs EXCEPT ![r] =
                   [NoReq EXCEPT !.kind = "chat", !.user = u, !.chat = c,
                                 !.pc = IF u = Absent /\ c = Absent THEN "u_create"
                                        ELSE IF u = Absent THEN "reject"
                                        ELSE "u_get"]]
    /\ UNCHANGED <<chats, redis, redis_up, resp, fresh, users, ucache, agentVars>>

\* a handler that takes a chat_id without a user_id for a request with no ids
Reject_as_new_user(r) ==
    /\ reqs[r].pc = "reject"
    /\ reqs' = [reqs EXCEPT ![r].pc = "u_create"]
    /\ UNCHANGED <<chats, redis, redis_up, resp, fresh, users, ucache, agentVars>>

\* chat, case 3: a chat_id without a user_id
Reject(r) ==
    /\ reqs[r].pc = "reject"
    /\ UNCHANGED <<chats, redis, redis_up, fresh, users, ucache, agentVars>>
    /\ Complete(r, reqs[r], UserIdRequired, "check")

\* where chat goes once validate_or_create_user has returned
AfterUser(q) == IF q.chat = Absent THEN "create" ELSE "v_get"

\* validate_or_create_user(None): create_user
UCreate(r) ==
    /\ reqs[r].pc = "u_create"
    /\ \E u \in Users \ users :
          /\ users' = users \cup {u}
          /\ reqs' = [reqs EXCEPT ![r].pc = "uc_set", ![r].user = u]
    /\ UNCHANGED <<chats, redis, redis_up, resp, fresh, ucache, agentVars>>

\* validate_or_create_user(None): cache_set_user, is_new_user = True
UCSet(r) ==
    /\ reqs[r].pc = "uc_set"
    /\ ucache' = cache_set_user(ucache, redis_up, reqs[r].user)
    /\ reqs' = [reqs EXCEPT ![r].pc = AfterUser(reqs[r]), ![r].is_new_user = TRUE]
    /\ UNCHANGED <<chats, redis, redis_up, resp, fresh, users, agentVars>>

\* validate_or_create_user(user_id): the cache read
UGet(r) ==
    LET q == reqs[r]
        user_exists == cache_get_user(ucache, redis_up, q.user)
    IN /\ q.pc = "u_get"
       /\ reqs' = [reqs EXCEPT ![r].pc = IF user_exists THEN AfterUser(q) ELSE "u_db"]
       /\ UNCHANGED <<chats, redis, redis_up, resp, fresh, users, ucache, agentVars>>

\* validate_or_create_user(user_id): get_user after a miss
UDb(r) ==
    LET q == reqs[r]
    IN /\ q.pc = "u_db"
       /\ UNCHANGED <<chats, redis, redis_up, fresh, users, ucache, agentVars>>
       /\ IF ~get_user(users, q.user)
          THEN Complete(r, q, UserNotFound(q.user), "db")
          ELSE reqs' = [reqs EXCEPT ![r].pc = "u_set"] /\ UNCHANGED resp

\* validate_or_create_user(user_id): the cache write of the user found
USet(r) ==
    /\ reqs[r].pc = "u_set"
    /\ ucache' = cache_set_user(ucache, redis_up, reqs[r].user)
    /\ reqs' = [reqs EXCEPT ![r].pc = AfterUser(reqs[r])]
    /\ UNCHANGED <<chats, redis, redis_up, resp, fresh, users, agentVars>>

\* movie_agent.answer / movie_agent.ahistory is called, up to its first
\* suspension
Invoke(r, q) ==
    /\ Calling(r, AgentOp(q.kind), q.chat)
    /\ reqs' = [reqs EXCEPT ![r] = [q EXCEPT !.pc = "agent"]]
    /\ UNCHANGED <<resp, callVars, closeVars>>

\* a handler that calls the agent whatever the status
Continue_unchecked(r, q, chat_status) == Invoke(r, q)

\* chat and get_chat_history once validate_chat_pair has returned chat_status
Continue(r, q, chat_status) ==
    IF chat_status # S_active
    THEN Complete(r, q, NotActive(chat_status), "check") /\ UNCHANGED agentVars
    ELSE Invoke(r, q)

\* validate_chat_pair for chat and get_chat_history: the cache read
PGet(r) ==
    LET q == reqs[r]
        cached_status == cache_get_chat_pair(redis, redis_up, q.user, q.chat)
    IN /\ q.pc = "v_get" /\ q.kind \in ApiKinds
       /\ UNCHANGED <<chats, redis, redis_up, fresh, users, ucache>>
       /\ IF cached_status # "none"
          THEN Continue(r, [q EXCEPT !.read = cached_status], cached_status)
          ELSE /\ reqs' = [reqs EXCEPT ![r].pc = "v_db"]
               /\ UNCHANGED <<resp, agentVars>>

\* validate_chat_pair for chat and get_chat_history: get_chat after a miss
PDb(r) ==
    LET q == reqs[r]
        chat == get_chat(chats, q.chat, q.user)
    IN /\ q.pc = "v_db" /\ q.kind \in ApiKinds
       /\ UNCHANGED <<chats, redis, redis_up, fresh, users, ucache, agentVars>>
       /\ IF ~chat.found
          THEN Complete(r, q, NotFound(q.chat), "db")
          ELSE /\ reqs' = [reqs EXCEPT ![r].pc = "v_set", ![r].read = chat.status]
               /\ UNCHANGED resp

\* validate_chat_pair for chat and get_chat_history: the cache write
PSet(r) ==
    LET q == [reqs[r] EXCEPT !.wrote = TRUE]
    IN /\ q.pc = "v_set" /\ q.kind \in ApiKinds
       /\ redis' = cache_set_chat_pair(redis, redis_up, q.user, q.chat, q.read)
       /\ UNCHANGED <<chats, redis_up, fresh, users, ucache>>
       /\ Continue(r, q, q.read)

\* chat, cases 1 and 2: the cache write of the new pair, is_new_chat = True
PNSet(r) ==
    LET q == [reqs[r] EXCEPT !.wrote = TRUE, !.is_new_chat = TRUE]
    IN /\ q.pc = "n_set" /\ q.kind = "chat"
       /\ redis' = cache_set_chat_pair(redis, redis_up, q.user, q.chat, S_active)
       /\ UNCHANGED <<chats, redis_up, fresh, users, ucache>>
       /\ Invoke(r, q)

\* answer / ahistory returns or raises: the lock is released, the response
\* is the reply or the 500 of the handler's except clause
AgentDone(r, ok) ==
    /\ reqs[r].pc = "agent"
    /\ Finishing(r)
    /\ UNCHANGED <<chats, redis, redis_up, fresh, users, ucache, callVars, closeVars>>
    /\ Complete(r, reqs[r], IF ok THEN Ok("reply") ELSE AgentFailed, "agent")

\* a row is deleted from the chats table by hand
RemoveChat(c) ==
    /\ c \in DOMAIN chats
    /\ chats[c].user_id # Nobody
    /\ chats' = [chats EXCEPT ![c].user_id = Nobody]
    /\ UNCHANGED <<redis, redis_up, reqs, resp, fresh, users, ucache, agentVars>>

\* what the step of a request changed, added to what the request did before
Effects ==
    (IF users' # users THEN {"user_row"} ELSE {})
    \cup (IF DOMAIN chats' # DOMAIN chats THEN {"chat_row"} ELSE {})
    \cup (IF redis' # redis \/ ucache' # ucache THEN {"cache"} ELSE {})
    \cup (IF tasks' # tasks \/ thread_locks' # thread_locks THEN {"agent"} ELSE {})

\* what request r has changed once the step under way is taken
DidAfter(r) == IF reqs'[r] # reqs[r] THEN did[r] \cup Effects ELSE did[r]

DidStep ==
    /\ did' = [r \in Reqs |-> IF Started(r) \/ Completed(r) THEN {} ELSE DidAfter(r)]
    /\ nreq' = IF \E r \in Reqs : Started(r) THEN nreq + 1 ELSE nreq

\* a step of the session layer alone
OfSession(A) ==
    /\ resp = NoResp /\ A
    /\ UNCHANGED <<users, ucache, chain, timeVars, agentVars, keyVars, cacheVars>>
    /\ DidStep

\* a step of an endpoint
OfEndpoint(A) ==
    resp = NoResp /\ A /\ DidStep /\ UNCHANGED <<chain, timeVars, keyVars, cacheVars>>

ApiInit ==
    /\ chats \in InitChats
    /\ redis = EmptyFn
    /\ redis_up = TRUE
    /\ reqs = [r \in Reqs |-> NoReq]
    /\ resp = NoResp
    /\ fresh = [p \in Pairs |-> "none"]
    /\ chain = NoChain
    /\ TimeIdle
    /\ users = {"u1"}
    /\ ucache = {}
    /\ did = [r \in Reqs |-> {}]
    /\ nreq = 0
    /\ KeyIdle /\ CacheIdle /\ AgentIdle

NamedUsers == Users \cup {NoSuchUser}

\* the steps of request r after its arrival, up to its response
EndpointStep(r) ==
    \/ OfEndpoint(Reject(r))
    \/ OfEndpoint(UCreate(r))
    \/ OfEndpoint(UCSet(r))
    \/ OfEndpoint(UGet(r))
    \/ OfEndpoint(UDb(r))
    \/ OfEndpoint(USet(r))
    \/ OfSession(Create(r))
    \/ OfEndpoint(PNSet(r))
    \/ OfEndpoint(PGet(r))
    \/ OfEndpoint(PDb(r))
    \/ OfEndpoint(PSet(r))
    \/ OfSession(reqs[r].kind \in StatusChanges /\ VGet(r))
    \/ OfSession(reqs[r].kind \in StatusChanges /\ VDb(r))
    \/ OfSession(reqs[r].kind \in StatusChanges /\ VSet(r))
    \/ OfSession(Upd(r))
    \/ OfSession(CSet(r))
    \/ resp = NoResp /\ LoadedTools(r)
    \/ resp = NoResp /\ OpenedSaver(r)
    \/ \E ok \in BOOLEAN : OfEndpoint(AgentDone(r, ok))

\* requests arrive and overlap, Redis comes and goes, rows are deleted
ApiNext ==
    \/ \E r \in Reqs, u \in NamedUsers \cup {Absent}, c \in NamedChats \cup {Absent} :
          OfEndpoint(nreq < MaxRequests /\ ChatStart(r, u, c))
    \/ \E r \in Reqs, kind \in {"history", "archive", "unarchive"},
          u \in Users, c \in NamedChats :
          OfSession(nreq < MaxRequests /\ Start(r, kind, u, c))
    \/ \E r \in Reqs : EndpointStep(r)
    \/ \E r \in Reqs : resp = NoResp /\ Resume(r)
    \/ \E c \in ChatIds : OfEndpoint(RemoveChat(c))
    \/ OfSession(RedisDown)
    \/ OfSession(RedisUp)
    \/ Deliver /\ UNCHANGED <<chain, timeVars, apiVars, keyVars, cacheVars, agentVars>>

SpecApi == ApiInit /\ [][ApiNext]_vars

\* request r takes the step under way
Moves(r) == reqs[r].pc # "idle" /\ reqs'[r] # reqs[r]

\* C12: while every Redis command fails, validate_or_create_user and
\* validate_chat_pair go the way of an empty cache: each read is a miss that
\* leads to the table, the answer is the one the table gives, each write
\* leaves Redis as it is and the validation goes on, and no response is the
\* cache's failure.
CacheOutageStep ==
    \A r \in Reqs :
        (~redis_up /\ Moves(r)) =>
            LET q == reqs[r]
                chat == get_chat(chats, q.chat, q.user)
            IN /\ q.pc = "u_get" => reqs'[r].pc = "u_db"
               /\ q.pc = "v_get" => reqs'[r].pc = "v_db"
               /\ q.pc = "u_db" => IF q.user \in users
                                   THEN reqs'[r].pc = "u_set"
                                   ELSE resp'.out = UserNotFound(q.user)
               /\ q.pc = "v_db" => IF chat.found
                                   THEN /\ reqs'[r].pc = "v_set"
                                        /\ reqs'[r].read = chats[q.chat].status
                                   ELSE resp'.out = NotFound(q.chat)
               /\ q.pc \in {"u_set", "uc_set"} => reqs'[r].pc = AfterUser(q)
               /\ q.pc = "v_set" =>
                     IF q.kind \in StatusChanges THEN reqs'[r].pc = "upd"
                     ELSE IF q.read = S_active THEN reqs'[r].pc = "agent"
                     ELSE resp'.out = NotActive(q.read)
               /\ redis' = redis /\ ucache' = ucache
               /\ q.pc # "agent" => resp'.out.code # 500

UserNotFoundStep ==
    \A r \in Reqs :
        LET q == reqs[r]
        IN /\ (Moves(r) /\ q.pc = "u_db" /\ q.user \notin users) =>
                 /\ resp'.out = UserNotFound(q.user)
                 /\ DidAfter(r) = {}
                 /\ users' = users /\ ucache' = ucache
                 /\ chats' = chats /\ redis' = redis
                 /\ tasks' = tasks /\ thread_locks' = thread_locks
           /\ (Moves(r) /\ q.pc = "u_create") =>
                 /\ Cardinality(users') = Cardinality(users) + 1
                 /\ users' = users \cup {reqs'[r].user}
           /\ (Moves(r) /\ q.pc = "uc_set") =>
                 /\ reqs'[r].user = q.user /\ q.user \in users
                 /\ reqs'[r].is_new_user
                 /\ redis_up => q.user \in ucache'
           /\ (Moves(r) /\ q.pc # "u_create") => users' = users

UserNotFoundOrCreated == [][UserNotFoundStep]_vars

\* an unknown user_id was answered 404 after a request without user_id had
\* created a user
UserNotFoundOrCreatedWitness ==
    /\ resp.kind = "chat"
    /\ resp.out = UserNotFound(NoSuchUser)
    /\ Cardinality(users) = 2
    /\ ucache = users \ {"u1"}

\* C28: POST /chat with a chat_id and no user_id is answered with the error
\* 400 "user_id is required" and changes nothing: no user row, no chat row, no
\* cache entry, no call of the agent.
ChatIdAloneStep ==
    \A r \in Reqs :
        LET q == reqs[r]
        IN (Moves(r) /\ q.kind = "chat" /\ q.user = Absent /\ q.chat # Absent) =>
               /\ resp'.out = UserIdRequired
               /\ resp'.out.code = 400
               /\ reqs'[r] = NoReq
               /\ DidAfter(r) = {}
               /\ users' = users /\ ucache' = ucache
               /\ chats' = chats /\ redis' = redis
               /\ tasks' = tasks /\ thread_locks' = thread_locks /\ locks' = locks

ChatIdAlone == [][ChatIdAloneStep]_vars

\* POST /chat naming a chat and no user was answered 400
ChatIdAloneWitness ==
    /\ resp.kind = "chat"
    /\ resp.user = Absent
    /\ resp.chat # Absent
    /\ resp.out = UserIdRequired

\* C29: the status of every chat is 'active' or 'archived'; a chat is created
\* 'active'; its status changes only in the UPDATE of archive_chat or
\* unarchive_chat, to the status that endpoint sets; and a chat that stays in
\* the table keeps its user_id.
ChatStatusStep ==
    /\ \A c \in (DOMAIN chats') \ (DOMAIN chats) : chats'[c].status = S_active
    /\ \A c \in DOMAIN chats :
          /\ c \in DOMAIN chats'
          /\ chats[c].status \in {S_active, S_archived}
          /\ chats'[c].status \in {S_active, S_archived}
          /\ chats'[c].status # chats[c].status =>
                \E r \in Reqs :
                    /\ Moves(r) /\ reqs[r].pc = "upd" /\ reqs[r].chat = c
                    /\ reqs[r].kind \in StatusChanges
                    /\ reqs[r].user = chats[c].user_id
                    /\ chats'[c].status = NewStatus(reqs[r].kind)
          /\ chats'[c].user_id \in {chats[c].user_id, Nobody}

ChatStatus == [][ChatStatusStep]_vars

\* a chat created by POST /chat has been archived by its owner
ChatStatusWitness ==
    /\ resp.kind = "archive"
    /\ resp.out.code = 200
    /\ resp.chat \in (DOMAIN chats) \ {"c1"}
    /\ chats[resp.chat].status = S_archived
    /\ chats[resp.chat].user_id = resp.user

\* the status validate_chat_pair hands to chat / get_chat_history in the
\* step under way ("none": it does not return in this step)
Validated(r) ==
    LET q == reqs[r]
    IN IF q.kind \notin ApiKinds \/ ~Moves(r) THEN "none"
       ELSE IF q.pc = "v_get"
            THEN cache_get_chat_pair(redis, redis_up, q.user, q.chat)
       ELSE IF q.pc = "v_set" THEN q.read
       ELSE "none"

\* C14: when validate_chat_pair yields 'archived', POST /chat and POST
\* /chat/history answer 400 "not active", which is not the 404 of a chat not
\* found, and the request calls neither answer nor ahistory.
ArchivedRejectedStep ==
    \A r \in Reqs :
        Validated(r) = S_archived =>
            /\ resp'.out = NotActive(S_archived)
            /\ resp'.out.code = 400
            /\ resp'.out # NotFound(reqs[r].chat)
            /\ "agent" \notin DidAfter(r)
            /\ tasks' = tasks /\ thread_locks' = thread_locks /\ locks' = locks

ArchivedRejected == [][ArchivedRejectedStep]_vars

\* POST /chat/history for an owned, archived chat was answered 400
ArchivedRejectedWitness ==
    /\ resp.kind = "history"
    /\ resp.out = NotActive(S_archived)
    /\ resp.owner = resp.user
    /\ chats[resp.chat].status = S_archived

\* C15: in POST /chat with both ids and in POST /chat/history the lock map is
\* looked up, the lock acquired and the agent called only once
\* validate_chat_pair has returned 'active' for the pair; a request whose
\* validation fails never touches the lock map.
LockAfterValidationStep ==
    /\ \A r \in Reqs :
        /\ (tasks'[r] # tasks[r] /\ tasks[r].pc = "idle") =>
              /\ reqs[r].pc \in {"v_get", "v_set", "n_set"}
              /\ reqs'[r].pc = "agent"
              /\ reqs'[r].is_new_chat \/ Validated(r) = S_active
        /\ tasks'[r].pc # "idle" =>
              /\ reqs'[r].pc = "agent"
              /\ reqs'[r].is_new_chat \/ reqs'[r].read = S_active
        /\ (Moves(r) /\ Completed(r) /\ resp'.src # "agent") =>
              /\ "agent" \notin DidAfter(r)
              /\ thread_locks' = thread_locks /\ locks' = locks
    /\ (thread_locks' # thread_locks \/ locks' # locks) =>
          \E t \in Reqs : tasks'[t] # tasks[t]

LockAfterValidation == [][LockAfterValidationStep]_vars

\* a POST /chat for an existing pair holds the lock of its chat while a
\* request for a chat that does not exist was answered 404, and only the
\* first chat has a lock
LockAfterValidationWitness ==
    /\ resp.out = NotFound(NoSuchChat)
    /\ \E r \in Reqs :
          /\ reqs[r].kind = "chat" /\ ~reqs[r].is_new_chat
          /\ tasks[r].pc = "cs"
          /\ DOMAIN thread_locks = {reqs[r].chat}

\* C16: when update_chat_status finds no row of that chat_id owned by that
\* user_id it returns False; archive_chat / unarchive_chat then answer 404,
\* the chats table is as before and the chat-pair key is not written.
NoRowUpdatedStep ==
    \A r \in Reqs :
        (Moves(r) /\ reqs[r].pc = "upd"
         /\ ~get_chat(chats, reqs[r].chat, reqs[r].user).found) =>
            /\ ~update_chat_status(chats, reqs[r].chat, reqs[r].user,
                                   NewStatus(reqs[r].kind)).ok
            /\ resp'.out = NotFound(reqs[r].chat)
            /\ chats' = chats
            /\ redis' = redis

NoRowUpdated == [][NoRowUpdatedStep]_vars

\* an archive whose validation was served from the cache found the row gone
NoRowUpdatedWitness ==
    /\ resp.kind = "archive"
    /\ resp.src = "update"
    /\ resp.out = NotFound(resp.chat)
    /\ ~resp.wrote
    /\ resp.owner = Nobody


=============================================================================
